---- MODULE Spec2Model ----
(***************************************************************************)
(* The UKK grading engine of rendy-be: the TestRunner pipeline             *)
(* (app/ukk_runner), and the WebSocket handler that runs it on a worker    *)
(* thread and forwards its events (app/routers/ukk.py).                    *)
(*                                                                         *)
(* Python values are modelled as follows.                                  *)
(*  - str | None : a record [none, s]; s is the text as a sequence of      *)
(*    fragments, so that concatenation is \o, "" is <<>> and substring     *)
(*    tests are contiguous sub-sequences.                                  *)
(*  - a raw "status" value : one of the tags PyTrue, PyFalse or any other  *)
(*    tag (a non-boolean object).                                          *)
(*  - an exception : a record [type, text]; str(e) is the text.            *)
(*  - uuid4() : a fresh serial number.                                     *)
(***************************************************************************)
EXTENDS Integers, Sequences, FiniteSets, TLC

\* ---------------------------------------------------------------- bounds
MaxNodes == 2       \* Proxmox nodes loaded from the database (at least 1)
MaxKeys == 1        \* keys under expected.resources of one VM
MaxPending == 2     \* events pushed by the worker and not yet taken by the consumer
MaxFaults == 1      \* remote commands / connects that raise unexpectedly in one run

\* ------------------------------------------------------- python values
None == [none |-> TRUE, s |-> <<>>]

Str(frags) == [none |-> FALSE, s |-> frags]

\* bool(x) of a str | None
Truthy(x) == ~x.none /\ x.s # <<>>

\* x or y
PyOr(x, y) == IF Truthy(x) THEN x ELSE y

\* y in x, for two strings
Contains(x, y) ==
    \/ y.s = <<>>
    \/ \E i \in 1..Len(x.s) :
          /\ i + Len(y.s) - 1 <= Len(x.s)
          /\ SubSeq(x.s, i, i + Len(y.s) - 1) = y.s

PyTrue == "True"

PyFalse == "False"

PyBool(b) == IF b THEN PyTrue ELSE PyFalse

\* the exceptions a remote call can raise: one with a text, one without
\* (paramiko raises a bare EOFError() when the peer drops the connection)
Excs ==
    { [type |-> "SSHException", text |-> <<"No existing session">>],
      [type |-> "EOFError", text |-> <<>>] }

PyStrExc(e) == Str(e.text)

TypeName(e) == Str(<<e.type>>)

\* ----------------------------------------------------- formatter, scoring
\* a raw result is a dict; only its "status" and "message" keys are read
RawGet(raw_result, key, default) ==
    IF key \in DOMAIN raw_result THEN raw_result[key] ELSE default

\* format_result that takes the raw status by its truth value
format_result_truthy(category, step_code, raw_result, score, id) ==
    LET status_bool == RawGet(raw_result, "status", PyFalse)
        truthy == status_bool \notin {PyFalse, "None"}
    IN  [ kind |-> "check",
          id |-> id,
          category |-> category,
          step_code |-> step_code,
          status |-> IF truthy THEN "success" ELSE "failed",
          score |-> IF truthy THEN score ELSE 0,
          max_score |-> score,
          message |-> RawGet(raw_result, "message", None) ]

\* format_result: step_name, raw and timestamp are carried along unread and
\* are left out; id is the uuid4 drawn for the record
format_result(category, step_code, raw_result, score, id) ==
    LET status_bool == RawGet(raw_result, "status", PyFalse)
        status == IF status_bool = PyTrue THEN "success"
                  ELSE IF status_bool = PyFalse THEN "failed"
                  ELSE "error"
        earned_score == IF status_bool = PyTrue THEN score ELSE 0
    IN  [ kind |-> "check",
          id |-> id,
          category |-> category,
          step_code |-> step_code,
          status |-> status,
          score |-> earned_score,
          max_score |-> score,
          message |-> RawGet(raw_result, "message", None) ]

DefaultScore == 5

ScoreInit == [total_score |-> 0, max_score |-> 0]

\* add that counts the maximum of successful results only
ScoreAdd_of_successes(sc, result) ==
    [ total_score |-> sc.total_score + result.score,
      max_score |-> sc.max_score + (IF result.status = "success" THEN result.max_score ELSE 0) ]

ScoreAdd(sc, result) ==
    [ total_score |-> sc.total_score + result.score,
      max_score |-> sc.max_score + result.max_score ]

\* round(n / d, 0) to the nearest integer, ties to even
RoundHalfEven(n, d) ==
    LET q == n \div d
        rem == n % d
    IN  IF 2 * rem > d \/ (2 * rem = d /\ q % 2 = 1) THEN q + 1 ELSE q

\* summary whose percentage is scaled to a percentage twice
ScoreSummary_scaled_twice(sc) ==
    LET positive == sc.max_score > 0
        ge(th) == positive /\ sc.total_score * 100 >= th * sc.max_score
    IN  [ total |-> sc.total_score,
          max |-> sc.max_score,
          percentage |-> IF positive
                         THEN RoundHalfEven(sc.total_score * 1000000, sc.max_score)
                         ELSE 0,
          grade |-> IF ge(90) THEN "A" ELSE IF ge(80) THEN "B"
                    ELSE IF ge(70) THEN "C" ELSE "D" ]

\* percentage is kept in hundredths (9000 is 90.0): round(total / max * 100, 2).
\* The grade is taken from the percentage before it is rounded.
ScoreSummary(sc) ==
    LET positive == sc.max_score > 0
        ge(th) == positive /\ sc.total_score * 100 >= th * sc.max_score
    IN  [ total |-> sc.total_score,
          max |-> sc.max_score,
          percentage |-> IF positive
                         THEN RoundHalfEven(sc.total_score * 10000, sc.max_score)
                         ELSE 0,
          grade |-> IF ge(90) THEN "A" ELSE IF ge(80) THEN "B"
                    ELSE IF ge(70) THEN "C" ELSE "D" ]

\* ------------------------------------------------------ compare, parser
\* a dict is a sequence of <<key, value>> pairs in insertion order
DictKeys(d) == { d[i][1] : i \in 1..Len(d) }

DictGet(d, key) ==
    IF key \in DictKeys(d)
    THEN (CHOOSE i \in 1..Len(d) : d[i][1] = key /\ \A j \in i+1..Len(d) : d[j][1] # key) 
    ELSE 0

DictVal(d, key) == IF DictGet(d, key) = 0 THEN "None" ELSE d[DictGet(d, key)][2]

\* d[key] = value, keeping the position of a key already present
DictSet(d, key, value) ==
    IF key \in DictKeys(d)
    THEN [i \in 1..Len(d) |-> IF d[i][1] = key THEN <<key, value>> ELSE d[i]]
    ELSE Append(d, <<key, value>>)

\* compare that reports the keys of actual
compare_over_actual(actual, expected) ==
    [ i \in 1..Len(actual) |->
        [ key |-> actual[i][1],
          expected |-> DictVal(expected, actual[i][1]),
          actual |-> actual[i][2],
          status |-> PyBool(actual[i][2] = DictVal(expected, actual[i][1])) ] ]

compare(actual, expected) ==
    [ i \in 1..Len(expected) |->
        [ key |-> expected[i][1],
          expected |-> expected[i][2],
          actual |-> DictVal(actual, expected[i][1]),
          status |-> PyBool(DictVal(actual, expected[i][1]) = expected[i][2]) ] ]

\* The VM configuration text is a sequence of lines; a line is read by its
\* prefix and by the fragment the parser extracts from it ("None" when the
\* pattern does not match). Integers are written as digit strings.
MaxLines == 2       \* lines of a remote command's output
MaxUsers == 2       \* users attempting the test
MaxTicks == 3       \* advances of the clock
MaxAttempts == 12   \* attempts the limiter lets through, all users together

IntLiterals == {"2", "4"}

ConfigLines ==
    { [start |-> "cores:", arg |-> "2"],
      [start |-> "cores:", arg |-> "4"],
      [start |-> "cores:", arg |-> "two"],
      [start |-> "scsi0:", arg |-> "32G"],
      [start |-> "scsi0:", arg |-> "None"],
      [start |-> "ctime=", arg |-> "1700000000"] }

humanize_datetime(ts) == IF ts = "1700000000" THEN "14 November 2023, 22:13:20" ELSE "None"

EmptyVmConfig ==
    << <<"cores", "None">>, <<"memory", "None">>, <<"disk_size", "None">>,
       <<"iso_name", "None">>, <<"created_at", "None">> >>

\* int(...) of a non-integer text raises ValueError
ParseRaises(config_text) ==
    \E i \in 1..Len(config_text) :
        /\ config_text[i].start \in {"cores:", "memory:"}
        /\ config_text[i].arg \notin IntLiterals

ParseLine(data, line) ==
    IF line.start = "cores:" THEN DictSet(data, "cores", line.arg)
    ELSE IF line.start = "memory:" THEN DictSet(data, "memory", line.arg)
    ELSE IF line.start = "scsi0:"
         THEN (IF line.arg # "None" THEN DictSet(data, "disk_size", line.arg) ELSE data)
    ELSE IF line.start = "ide2:"
         THEN (IF line.arg # "None" THEN DictSet(data, "iso_name", line.arg) ELSE data)
    ELSE IF line.start = "ctime=" /\ line.arg # "None"
         THEN DictSet(data, "created_at", humanize_datetime(line.arg))
    ELSE data

RECURSIVE ParseLines(_, _)
ParseLines(data, lines) ==
    IF lines = <<>> THEN data
    ELSE ParseLines(ParseLine(data, Head(lines)), Tail(lines))

parse_vm_config(config_text) == ParseLines(EmptyVmConfig, config_text)

\* ------------------------------------------------------------ SSHClient
\* a session is "open" (connected), "closed" (close() called) or "none"
\* (never created). run() on a session that is not open fails on
\* self.client.exec_command with self.client = None.
NoClientError ==
    [type |-> "AttributeError",
     text |-> <<"'NoneType' object has no attribute 'exec_command'">>]

SSHClose(session) == IF session = "open" THEN "closed" ELSE session

\* ------------------------------------------------------------ VMChecker
\* The output of "hostname && qm list" is a sequence of lines, each line the
\* sequence of its whitespace-separated parts.
ListingRows == { <<>>, <<"pve1">>, <<"100", "vm">>, <<"101", "other">>, <<"vm", "100">> }

RECURSIVE SeqsUpTo(_, _)
SeqsUpTo(S, n) ==
    IF n = 0 THEN {<<>>}
    ELSE SeqsUpTo(S, n - 1) \cup { Append(q, x) : q \in { t \in SeqsUpTo(S, n - 1) : Len(t) = n - 1 }, x \in S }

Listings == SeqsUpTo(ListingRows, MaxLines)

\* what the environment answers to one remote command: it raises e, or it
\* returns lines
CmdOuts(Lines) ==
    [raises : {FALSE}, e : {NoClientError}, lines : Lines]
        \cup [raises : {TRUE}, e : Excs, lines : {<<>>}]

\* ssh.run(cmd) on a session: the environment's answer, or the failure of a
\* session that is not open
run(session, out) ==
    IF session = "open" THEN out
    ELSE [raises |-> TRUE, e |-> NoClientError, lines |-> <<>>]

MatchingRows(lines, vm_name) ==
    { j \in 2..Len(lines) : Len(lines[j]) >= 2 /\ lines[j][2] = vm_name }

\* one turn of the loop that reads the name in the first column of a row
find_vm_host_first_column(session, out, name) ==
    LET res == run(session, out)
        rows == { j \in 2..Len(res.lines) : Len(res.lines[j]) >= 2 /\ res.lines[j][1] = name }
    IN  IF res.raises
        THEN [kind |-> "raise", vmid |-> "None", session |-> session, e |-> res.e]
        ELSE IF res.lines = <<>>
        THEN [kind |-> "skip", vmid |-> "None", session |-> session, e |-> res.e]
        ELSE IF rows # {}
        THEN [kind |-> "hit",
              vmid |-> res.lines[CHOOSE j \in rows : \A k \in rows : j <= k][1],
              session |-> session, e |-> res.e]
        ELSE [kind |-> "miss", vmid |-> "None", session |-> SSHClose(session), e |-> res.e]

\* a loop that closes the session of every host it has listed
find_vm_host_closing(session, out, name) ==
    LET res == run(session, out)
        rows == MatchingRows(res.lines, name)
    IN  IF res.raises
        THEN [kind |-> "raise", vmid |-> "None", session |-> session, e |-> res.e]
        ELSE IF res.lines = <<>>
        THEN [kind |-> "skip", vmid |-> "None", session |-> session, e |-> res.e]
        ELSE IF rows # {}
        THEN [kind |-> "hit",
              vmid |-> res.lines[CHOOSE j \in rows : \A k \in rows : j <= k][1],
              session |-> SSHClose(session), e |-> res.e]
        ELSE [kind |-> "miss", vmid |-> "None", session |-> SSHClose(session), e |-> res.e]

\* One turn of the loop of find_vm, over one host: the command raises
\* ("raise"), the listing is empty and the loop continues ("skip"), a row
\* matches and find_vm returns ("hit"), or no row matches and the session
\* is closed ("miss").
find_vm_host(session, out, name) ==
    LET res == run(session, out)
        rows == MatchingRows(res.lines, name)
    IN  IF res.raises
        THEN [kind |-> "raise", vmid |-> "None", session |-> session, e |-> res.e]
        ELSE IF res.lines = <<>>
        THEN [kind |-> "skip", vmid |-> "None", session |-> session, e |-> res.e]
        ELSE IF rows # {}
        THEN [kind |-> "hit",
              vmid |-> res.lines[CHOOSE j \in rows : \A k \in rows : j <= k][1],
              session |-> session, e |-> res.e]
        ELSE [kind |-> "miss", vmid |-> "None", session |-> SSHClose(session), e |-> res.e]

\* check_status: the value after "status:", or "unknown"
check_status(status_line) == IF status_line = "None" THEN "unknown" ELSE status_line

\* ------------------------------------------------- the remaining checkers
\* What one probe observes: the command raises e, or it returns and the
\* probe derives ok (binary found, service active, row present, exit status
\* 0, login accepted, answer contains the expected value). The
\* configuration test also reads two markers in the output.
NginxMarkers == {"syntax is ok", "test is successful"}

ProbeOuts ==
    [raises : {FALSE}, e : {NoClientError}, ok : BOOLEAN, markers : {{}}]
        \cup [raises : {TRUE}, e : Excs, ok : {FALSE}, markers : {{}}]

\* what nginx -t writes to stdout and to stderr: up to MaxLines pieces each
NginxPieces ==
    { "syntax is ok", "test is successful", "syntax is OK", "[emerg] unexpected \"}\"" }

NginxTexts == SeqsUpTo(NginxPieces, MaxLines)

\* output = (res.get_output() + "\n" + res.get_error()).strip()
Combined(stdout, stderr) ==
    Str((IF stdout = <<>> \/ stderr = <<>> THEN stdout ELSE stdout \o <<"\n">>) \o stderr)

\* marker in output
MarkersIn(output) == { m \in NginxMarkers : Contains(output, Str(<<m>>)) }

NginxAnswer(stdout, stderr) ==
    [raises |-> FALSE, e |-> NoClientError, ok |-> FALSE,
     markers |-> MarkersIn(Combined(stdout, stderr))]

NginxOuts ==
    { NginxAnswer(stdout, stderr) : stdout \in NginxTexts, stderr \in NginxTexts }
        \cup [raises : {TRUE}, e : Excs, ok : {FALSE}, markers : {{}}]

\* a probe on a session that is not open raises inside the probe
OnSession(session, out) ==
    IF session = "open" THEN out
    ELSE [raises |-> TRUE, e |-> NoClientError, ok |-> FALSE, markers |-> {}]

Raw(status, message) == [status |-> PyBool(status), message |-> message]

\* found = False in the except branch
check_php_binary(out) ==
    LET found == ~out.raises /\ out.ok
    IN  Raw(found, IF found THEN None ELSE Str(<<"PHP binary not found">>))

\* the raw result of check_php_modules has no "message" key
check_php_modules(out) == [status |-> PyBool(~out.raises /\ out.ok)]

check_nginx_binary(out) ==
    LET found == ~out.raises /\ out.ok
    IN  Raw(found, IF found THEN None ELSE Str(<<"Nginx binary not found">>))

check_nginx_service(out) ==
    LET active == ~out.raises /\ out.ok
    IN  Raw(active, IF active THEN None ELSE Str(<<"Nginx service not running">>))

\* a configuration test that is content with one of the two markers
check_nginx_config_syntax_either(out) ==
    IF out.raises THEN Raw(FALSE, PyStrExc(out.e))
    ELSE LET success == "syntax is ok" \in out.markers \/ "test is successful" \in out.markers
         IN  Raw(success, IF success THEN None ELSE Str(<<"Nginx configuration test failed">>))

\* success = "syntax is ok" in output and "test is successful" in output;
\* the except branch returns status False and str(e)
check_nginx_config_syntax(out) ==
    IF out.raises THEN Raw(FALSE, PyStrExc(out.e))
    ELSE LET success == "syntax is ok" \in out.markers /\ "test is successful" \in out.markers
         IN  Raw(success, IF success THEN None ELSE Str(<<"Nginx configuration test failed">>))

\* the checkers below share one shape: the except branch returns status
\* False and str(e); otherwise status is ok and the message is None or fail
ProbeRaw(out, fail) ==
    IF out.raises THEN Raw(FALSE, PyStrExc(out.e))
    ELSE Raw(out.ok, IF out.ok THEN None ELSE fail)

check_mysql_binary(out) == ProbeRaw(out, Str(<<"MySQL binary not found">>))

check_mysql_service(out) == ProbeRaw(out, Str(<<"MySQL service not running">>))

check_database_exists(out, db_name) == ProbeRaw(out, Str(<<"DB '", db_name, "' not found">>))

check_database_user_exists(out, db_user) == ProbeRaw(out, Str(<<"User '", db_user, "' not found">>))

\* the message of a failed login is stderr, here the client's refusal
check_wordpress_db_connection(out) == ProbeRaw(out, Str(<<"ERROR 1045 (28000): Access denied">>))

check_wordpress_login(out) == ProbeRaw(out, Str(<<"Login failed">>))

check_bind_binary(out) == ProbeRaw(out, Str(<<"Bind9 binary not found">>))

check_bind_service(out) == ProbeRaw(out, Str(<<"Bind9 service not running">>))

check_forward_dns(out) == ProbeRaw(out, Str(<<"Forward DNS mismatch">>))

check_reverse_dns(out) == ProbeRaw(out, Str(<<"Reverse DNS mismatch">>))

\* ---------------------------------------------------------------- state
VARIABLES
    nodes,          \* number of Proxmox nodes handed to TestRunner (ukk.py:189)
    wpc,            \* run_sync: "queued", "next" (in next(generator)), "got", "done"
    gen,            \* TestRunner.run: the yield the generator is suspended at
    score,          \* self.score
    sess,           \* the SSH sessions: nodes_ssh, pve_ssh, ubuntu_ssh
    loc,            \* generator locals: the host being scanned, vm, the compare results left to yield, the stop reason
    r,              \* the event last yielded to run_sync
    exc,            \* the exception that left the generator
    nextId,         \* serial of the next uuid4
    faults,         \* unexpected failures of remote calls so far
    cancel_event,   \* threading.Event
    callbacks,      \* call_soon_threadsafe: callbacks the loop has not run yet
    queue,          \* asyncio.Queue
    cpc,            \* handler: "loop", "join" (finally: await future), "closed"
    stop_error,
    listener,       \* cancel_listener task: "listening", "done"
    transport,      \* the WebSocket: "up", "down" (client gone)
    leaderboard,    \* the UKKTestResult row of this user
    emitted,        \* history: events yielded by the generator
    pushed,         \* history: items run_sync handed to the loop
    sent,           \* history: objects passed to websocket.send_json that were sent
    seen,           \* history: sums over the emitted check results, and marks
    pool,           \* _executor: the work queue, the attempts its threads are running, those that returned; history: those that were running when this one was submitted
    clock,          \* time.monotonic(), in seconds
    test_rate_limit_storage,  \* _test_rate_limit_storage: per user, the times of the attempts kept
    admitted,       \* history: per user, the times of the attempts the limiter let through
    attempt,        \* history: the attempt the limiter decided last
    scope,          \* the input and environment explored: the payload's shape, the answers of the hosts, the backlog of the channel
    call            \* a call of a pure function, with its arguments and its result

\* the rate limiter of the process and its clock
limitVars == << clock, test_rate_limit_storage, admitted, attempt >>

vars ==
    << nodes, wpc, gen, score, sess, loc, r, exc, nextId, faults, cancel_event,
       callbacks, queue, cpc, stop_error, listener, transport, leaderboard,
       emitted, pushed, sent, seen, scope, pool, call, limitVars >>

\* what the generator does not touch
handlerVars == << nodes, cancel_event, callbacks, queue, cpc, stop_error, listener,
                  transport, leaderboard, pushed, sent, scope, pool, call, limitVars >>

runnerVars == << gen, score, sess, loc, r, exc, nextId, faults, emitted, seen >>

StartEvent == [kind |-> "start"]

FinishedEvent(summary) == [kind |-> "finished", summary |-> summary]

StopMarker(reason) == [kind |-> "_stop", reason |-> reason]

ErrorEvent(message) == [kind |-> "error", message |-> message]

\* The histories keep a check result by its identity (step code and id);
\* other events are kept whole.
Brief(item) ==
    IF item.kind = "check"
    THEN [kind |-> "check", step_code |-> item.step_code, id |-> item.id]
    ELSE item

NoException == [type |-> "None", text |-> <<>>]

NoEntry == [present |-> FALSE, total_score |-> 0, max_score |-> 0, percentage |-> 0, grade |-> ""]

NoCall == [op |-> "none"]

\* _executor = ThreadPoolExecutor(max_workers=2). The attempt of this run is
\* 0; the attempts of other connections are 1, 2, ...
max_workers == 2

\* the executor when the handler has submitted run_sync and no other attempt
\* is queued or running
OwnPool == [queue |-> <<0>>, running |-> {}, finished |-> {}, before |-> {}]

\* ---------------------------------------------------------- rate limit
\* TEST_RATE_LIMIT_WINDOW_SECONDS = 60; TEST_RATE_LIMIT_MAX_REQUESTS = 10
TEST_RATE_LIMIT_WINDOW_SECONDS == 60

TEST_RATE_LIMIT_MAX_REQUESTS == 10

Users == 1..MaxUsers

\* the process has started: _test_rate_limit_storage = {} (a user without a
\* key and a user with an empty list are treated alike, lines 35-37)
NoAttempts ==
    /\ clock = 0
    /\ test_rate_limit_storage = [u \in Users |-> <<>>]
    /\ admitted = [u \in Users |-> <<>>]
    /\ attempt = [user |-> 0, at |-> 0, allowed |-> FALSE]

\* the state after TestRunner(data, nodes, ...) is built and the handler has
\* created the queue and the cancel event, for nodes in N under scope s,
\* the user's row of ukk_test_results being entry
StartOver(N, s, entry) ==
    /\ nodes \in N
    /\ scope = s
    /\ wpc = "queued"
    /\ gen = "init"
    /\ score = ScoreInit
    /\ sess = [nodes_ssh |-> <<>>, pve_ssh |-> "none", ubuntu_ssh |-> "none"]
    /\ loc = [host |-> 1, vm |-> 0, todo |-> <<>>, reason |-> None]
    /\ r = StartEvent
    /\ exc = NoException
    /\ nextId = 1
    /\ faults = 0
    /\ cancel_event = FALSE
    /\ callbacks = <<>>
    /\ queue = <<>>
    /\ cpc = "loop"
    /\ stop_error = None
    /\ listener = "listening"
    /\ transport = "up"
    /\ leaderboard = entry
    /\ emitted = <<>>
    /\ pushed = <<>>
    /\ sent = <<>>
    /\ seen = [sumScore |-> 0, sumMax |-> 0, cancelAt |-> -1, cancelLen |-> -1, pve |-> "open", ubu |-> "open",
               loginFailed |-> "none", cause |-> NoException, sendFailed |-> FALSE,
               uses |-> {}, off |-> {}, row |-> entry, keys |-> 0, scan |-> <<>>]

\* the same for a user who has no row
Start(N, s) == StartOver(N, s, NoEntry)

\* ---------------------------------------------------- generator plumbing
Checks(h) == { i \in 1..Len(h) : h[i].kind = "check" }

\* yield ev
Yield(ev, next) ==
    /\ r' = ev
    /\ gen' = next
    /\ wpc' = "got"
    /\ emitted' = Append(emitted, Brief(ev))

\* result = format_result(...); self.score.add(result); yield result
YieldCheck(result, next, marks) ==
    /\ score' = ScoreAdd(score, result)
    /\ Yield(result, next)
    /\ nextId' = nextId + 1
    /\ seen' = [marks EXCEPT !.sumScore = @ + result.score, !.sumMax = @ + result.max_score]

\* an exception leaves the generator
Raise(e) ==
    /\ exc' = e
    /\ gen' = "raised"
    /\ UNCHANGED << wpc, r, emitted, score, nextId, seen >>

\* the state of the session a stage names: a node session by its index
SessionAt(session) ==
    IF session[1] = "nodes_ssh"
    THEN IF session[2] \in DOMAIN sess.nodes_ssh THEN sess.nodes_ssh[session[2]] ELSE "none"
    ELSE sess[session[1]]

\* ssh.run(...) was called on the session by a stage; off keeps the calls
\* made on a session that was not open
Used(marks, session, stage) ==
    [marks EXCEPT !.uses = @ \cup {[session |-> session, stage |-> stage]},
                  !.off = IF SessionAt(session) = "open" THEN @
                          ELSE @ \cup {[session |-> session, stage |-> stage]}]

\* an exception raised by a remote command of a stage leaves the generator
RaiseIn(e, session, stage) ==
    /\ exc' = e
    /\ gen' = "raised"
    /\ seen' = Used(seen, session, stage)
    /\ UNCHANGED << wpc, r, emitted, score, nextId >>

\* the environment may make a remote call fail while the fault budget lasts
Admit(out) == out.raises => faults < MaxFaults

\* the answers a scope admits: any, only those under which a non-fatal
\* check passes, or only those under which it fails
Fits(ok) == scope.probes = "any" \/ (ok <=> scope.probes = "pass")

TestStopException(message) == [type |-> "TestStopException", text |-> message.s]

\* ------------------------------------------------------- the test payload
\* The payload (self.data) is read-only and each field is read once, so a
\* field's value is drawn where the code reads it.
vm_name == "vm"

ResourceKeys == {"cores", "disk_size"}

ExpectedValues == {"None", "2", "32G"}

ExpectedResources ==
    { d \in SeqsUpTo(ResourceKeys \X ExpectedValues, MaxKeys) :
        \A i, j \in 1..Len(d) : d[i][1] = d[j][1] => i = j }

ConfigTexts == SeqsUpTo(ConfigLines, MaxLines)

StatusLines == {"running", "stopped", "None"}

ExpectedStatuses == {"None", "running", "stopped"}

ResCode(prefix, key) ==
    IF prefix = "PVE-RES"
    THEN (IF key = "cores" THEN "PVE-RES-CORES" ELSE "PVE-RES-DISK_SIZE")
    ELSE (IF key = "cores" THEN "UBU-RES-CORES" ELSE "UBU-RES-DISK_SIZE")

ValueError == [type |-> "ValueError", text |-> <<"invalid literal for int() with base 10: 'two'">>]

\* A payload is complete, or it lacks one of the fields below. Subscripting
\* a dict with a key it lacks raises KeyError, whose text is the key's repr.
PayloadFields ==
    { "vm_proxmox.inputs.name", "vm_proxmox.expected.resources", "vm_proxmox.inputs.host",
      "php.expected.modules", "mysql.inputs.db_name", "wordpress.inputs.url",
      "dns.expected.ip" }

KeyOf(field) ==
    CASE field = "vm_proxmox.inputs.name" -> "name"
      [] field = "vm_proxmox.expected.resources" -> "resources"
      [] field = "vm_proxmox.inputs.host" -> "host"
      [] field = "php.expected.modules" -> "modules"
      [] field = "mysql.inputs.db_name" -> "db_name"
      [] field = "wordpress.inputs.url" -> "url"
      [] field = "dns.expected.ip" -> "ip"

KeyError(field) == [type |-> "KeyError", text |-> <<"'", KeyOf(field), "'">>]

\* the fields the generator subscripts, outside any try, when it resumes from
\* a yield and before its next remote call
ReadsAt(at) ==
    CASE at = "connected" -> {"vm_proxmox.inputs.name"}
      [] at = "PHP-01" -> {"php.expected.modules"}
      [] at = "SQL-02" -> {"mysql.inputs.db_name"}
      [] at = "SQL-05" -> {"wordpress.inputs.url"}
      [] at = "DNS-02" -> {"dns.expected.ip"}
      [] OTHER -> {}

\* the field compare(resources, self.data[...]["expected"]["resources"])
\* subscripts once check_resources has returned
ResourcesField(stage) ==
    IF stage = "proxmox-resources" THEN "vm_proxmox.expected.resources" ELSE "none"

\* --------------------------------------------------------- TestRunner.run
\* a generator that connects to the nodes before it yields the start event
run_start_connecting ==
    /\ wpc = "next" /\ gen = "init"
    /\ UNCHANGED handlerVars
    /\ Yield(StartEvent, "start")
    /\ sess' = [sess EXCEPT !.nodes_ssh = [i \in 1..nodes |-> "open"]]
    /\ UNCHANGED << score, loc, exc, nextId, faults, seen >>

run_start ==
    /\ wpc = "next" /\ gen = "init"
    /\ UNCHANGED handlerVars
    /\ Yield(StartEvent, "start")
    /\ UNCHANGED << score, sess, loc, exc, nextId, faults, seen >>

\* for node in self.nodes: SSHClient(...).connect(): node k fails (0: none)
run_connect ==
    /\ wpc = "next" /\ gen = "start"
    /\ UNCHANGED handlerVars
    /\ \E k \in 0..nodes :
        IF k = 0
        THEN /\ sess' = [sess EXCEPT !.nodes_ssh = [i \in 1..nodes |-> "open"]]
             /\ gen' = "connected"
             /\ UNCHANGED << exc, faults, wpc, r, emitted, score, nextId, seen >>
        ELSE /\ faults < MaxFaults
             /\ faults' = faults + 1
             /\ sess' = [sess EXCEPT !.nodes_ssh = [i \in 1..(k - 1) |-> "open"]]
             /\ \E e \in Excs : Raise(e)
    /\ UNCHANGED loc

\* What the hosts of one discovery have answered so far: "listed" once a
\* listing holds a row whose name column is the name, "unlisted" once every
\* host has answered and none does, "open" until then.
Listed(lines, name) == \E j \in 2..Len(lines) : Len(lines[j]) >= 2 /\ lines[j][2] = name

Answered(mark, out, last) ==
    IF out.raises THEN mark
    ELSE IF Listed(out.lines, vm_name) THEN "listed"
    ELSE IF last THEN "unlisted"
    ELSE mark

\* vm = scanner.find_vm(name), one host per step, and the PVE-01 result
\* once find_vm has returned
run_proxmox_exists ==
    /\ wpc = "next" /\ gen = "connected"
    /\ scope.data \notin ReadsAt(gen)
    /\ UNCHANGED handlerVars
    /\ \E out \in CmdOuts(Listings) :
        LET h == find_vm_host(sess.nodes_ssh[loc.host], out, vm_name)
            marks == Used([seen EXCEPT !.pve = Answered(@, out, loc.host = nodes),
                                       !.scan = Append(@, [host |-> loc.host,
                                                           listed |-> Listed(out.lines, vm_name)])],
                          <<"nodes_ssh", loc.host>>, "proxmox-exists")
        IN  /\ Admit(out)
            /\ faults' = IF out.raises THEN faults + 1 ELSE faults
            /\ sess' = [sess EXCEPT !.nodes_ssh[loc.host] = h.session]
            /\ IF h.kind = "raise"
               THEN RaiseIn(h.e, <<"nodes_ssh", loc.host>>, "proxmox-exists") /\ UNCHANGED loc
               ELSE IF h.kind = "hit"
               THEN /\ YieldCheck(
                         format_result("proxmox", "PVE-01", [status |-> PyTrue],
                             DefaultScore, nextId),
                         "PVE-01", marks)
                    /\ loc' = [loc EXCEPT !.vm = loc.host]
                    /\ UNCHANGED exc
               ELSE IF loc.host < nodes
               THEN /\ loc' = [loc EXCEPT !.host = @ + 1]
                    /\ seen' = marks
                    /\ UNCHANGED << gen, exc, wpc, r, emitted, score, nextId >>
               ELSE /\ YieldCheck(
                         format_result("proxmox", "PVE-01",
                             Raw(FALSE, Str(<<"VM not found">>)), 10, nextId),
                         "PVE-01-fatal", marks)
                    /\ loc' = [loc EXCEPT !.reason =
                                  Str(<<"Proxmox VM not found. Cannot continue tests.">>)]
                    /\ UNCHANGED exc

\* the stop after a failed existence check only: after a failed access
\* check the generator goes on to the next stage
raise_stop_skipped ==
    /\ wpc = "next"
    /\ gen \in {"PVE-01-fatal", "PVE-03-fatal", "UBU-01-fatal", "UBU-03-fatal"}
    /\ IF gen \in {"PVE-01-fatal", "UBU-01-fatal"}
       THEN Raise(TestStopException(loc.reason))
       ELSE /\ gen' = (IF gen = "PVE-03-fatal" THEN "PVE-03" ELSE "UBU-03")
            /\ UNCHANGED << exc, wpc, r, emitted, score, nextId, seen >>
    /\ UNCHANGED << sess, loc, faults >>
    /\ UNCHANGED handlerVars

\* raise TestStopException(...) after the failed check was yielded
raise_stop ==
    /\ wpc = "next"
    /\ gen \in {"PVE-01-fatal", "PVE-03-fatal", "UBU-01-fatal", "UBU-03-fatal"}
    /\ Raise(TestStopException(loc.reason))
    /\ UNCHANGED << sess, loc, faults >>
    /\ UNCHANGED handlerVars

\* resources = scanner.check_resources(...); results = compare(resources, expected)
Resources(at, next, session, name, stage) ==
    /\ wpc = "next" /\ gen = at
    /\ UNCHANGED handlerVars
    /\ \E out \in CmdOuts(ConfigTexts), expected \in ExpectedResources :
        LET res == run(session, out)
        IN  /\ Admit(out)
            /\ faults' = IF session = "open" /\ out.raises THEN faults + 1 ELSE faults
            /\ IF res.raises THEN RaiseIn(res.e, name, stage) /\ UNCHANGED loc
               ELSE IF ParseRaises(res.lines) THEN RaiseIn(ValueError, name, stage) /\ UNCHANGED loc
               ELSE IF scope.data = ResourcesField(stage)
               THEN RaiseIn(KeyError(scope.data), name, stage) /\ UNCHANGED loc
               ELSE LET results == compare(parse_vm_config(res.lines), expected)
                    IN  /\ \A i \in 1..Len(results) : Fits(results[i].status = PyTrue)
                        /\ loc' = [loc EXCEPT !.todo = results]
                        /\ gen' = next
                        /\ seen' = [Used(seen, name, stage) EXCEPT !.keys = @ + Len(expected)]
                        /\ UNCHANGED << exc, wpc, r, emitted, score, nextId >>
    /\ UNCHANGED sess

\* one turn of: for key, value in results.items(): ... yield result
Resource(at, category, prefix) ==
    /\ wpc = "next" /\ gen = at /\ loc.todo # <<>>
    /\ UNCHANGED handlerVars
    /\ LET value == Head(loc.todo)
       IN  YieldCheck(
               format_result(category, ResCode(prefix, value.key),
                   [status |-> value.status,
                    message |-> Str(<<"expected=", value.expected, " actual=", value.actual>>)],
                   5, nextId),
               at, seen)
    /\ loc' = [loc EXCEPT !.todo = Tail(@)]
    /\ UNCHANGED << sess, exc, faults >>

run_proxmox_resources ==
    Resources("PVE-01", "PVE-RES", sess.nodes_ssh[loc.vm], <<"nodes_ssh", loc.vm>>,
        "proxmox-resources")

run_proxmox_resource == Resource("PVE-RES", "proxmox", "PVE-RES")

run_proxmox_status ==
    /\ wpc = "next" /\ gen = "PVE-RES" /\ loc.todo = <<>>
    /\ UNCHANGED handlerVars
    /\ \E out \in CmdOuts(StatusLines), vm_status \in ExpectedStatuses :
        LET session == sess.nodes_ssh[loc.vm]
            res == run(session, out)
            status == check_status(res.lines)
            expected == IF vm_status = "None" THEN "running" ELSE vm_status
            status_ok == status = expected
        IN  /\ Admit(out)
            /\ faults' = IF session = "open" /\ out.raises THEN faults + 1 ELSE faults
            /\ IF res.raises THEN RaiseIn(res.e, <<"nodes_ssh", loc.vm>>, "proxmox-status")
               ELSE /\ Fits(status_ok)
                    /\ YieldCheck(
                         format_result("proxmox", "PVE-02",
                             Raw(status_ok,
                                 IF status_ok THEN None
                                 ELSE Str(<<"expected vm_status=", expected, ", actual=", status>>)),
                             DefaultScore, nextId),
                         "PVE-02", Used(seen, <<"nodes_ssh", loc.vm>>, "proxmox-status"))
                    /\ UNCHANGED exc
    /\ UNCHANGED << sess, loc >>

\* the outcome of SSHClient(...).connect(): "ok", or the exception raised
Logins == {[ok |-> TRUE, e |-> NoException]} \cup [ok : {FALSE}, e : Excs]

\* the login whose arguments subscript the payload inside the try
LoginsWith(field) ==
    IF scope.data = field THEN {[ok |-> FALSE, e |-> KeyError(field)]} ELSE Logins

\* ssh_error = str(e) or type(e).__name__
SshError(e) == PyOr(PyStrExc(e), TypeName(e))

run_proxmox_access ==
    /\ wpc = "next" /\ gen = "PVE-02"
    /\ UNCHANGED handlerVars
    /\ \E login \in LoginsWith("vm_proxmox.inputs.host") :
        LET ssh_error == IF login.ok THEN None ELSE SshError(login.e)
            result == format_result("proxmox", "PVE-03",
                          Raw(login.ok, ssh_error), DefaultScore, nextId)
        IN  /\ sess' = [sess EXCEPT !.nodes_ssh[loc.vm] = SSHClose(@),
                                    !.pve_ssh = IF login.ok THEN "open" ELSE @]
            /\ IF login.ok
               THEN YieldCheck(result, "PVE-03", seen) /\ UNCHANGED loc
               ELSE /\ YieldCheck(result, "PVE-03-fatal",
                          [seen EXCEPT !.loginFailed = "proxmox", !.cause = login.e])
                    /\ loc' = [loc EXCEPT !.reason =
                          Str(<<"Proxmox SSH Access gagal. Test dihentikan. Error: ">> \o ssh_error.s)]
    /\ UNCHANGED << exc, faults >>

\* vm = VMChecker([self.pve_ssh]).find_vm(name), and the UBU-01 result
run_ubuntu_exists ==
    /\ wpc = "next" /\ gen = "PVE-03"
    /\ UNCHANGED handlerVars
    /\ \E out \in CmdOuts(Listings) :
        LET h == find_vm_host(sess.pve_ssh, out, vm_name)
            marks == Used([seen EXCEPT !.ubu = Answered(@, out, TRUE)],
                          <<"pve_ssh">>, "ubuntu-exists")
        IN  /\ Admit(out)
            /\ faults' = IF out.raises /\ sess.pve_ssh = "open" THEN faults + 1 ELSE faults
            /\ sess' = [sess EXCEPT !.pve_ssh = h.session]
            /\ IF h.kind = "raise"
               THEN RaiseIn(h.e, <<"pve_ssh">>, "ubuntu-exists") /\ UNCHANGED loc
               ELSE IF h.kind = "hit"
               THEN /\ YieldCheck(
                         format_result("ubuntu", "UBU-01", [status |-> PyTrue],
                             DefaultScore, nextId),
                         "UBU-01", marks)
                    /\ UNCHANGED << loc, exc >>
               ELSE /\ YieldCheck(
                         format_result("ubuntu", "UBU-01", [status |-> PyFalse], 10, nextId),
                         "UBU-01-fatal", marks)
                    /\ loc' = [loc EXCEPT !.reason =
                                  Str(<<"Ubuntu VM not found. Cannot continue tests.">>)]
                    /\ UNCHANGED exc

run_ubuntu_resources ==
    Resources("UBU-01", "UBU-RES", sess.pve_ssh, <<"pve_ssh">>, "ubuntu-resources")

run_ubuntu_resource == Resource("UBU-RES", "ubuntu", "UBU-RES")

run_ubuntu_status ==
    /\ wpc = "next" /\ gen = "UBU-RES" /\ loc.todo = <<>>
    /\ UNCHANGED handlerVars
    /\ \E out \in CmdOuts(StatusLines) :
        LET session == sess.pve_ssh
            res == run(session, out)
            status == check_status(res.lines)
        IN  /\ Admit(out)
            /\ faults' = IF session = "open" /\ out.raises THEN faults + 1 ELSE faults
            /\ IF res.raises THEN RaiseIn(res.e, <<"pve_ssh">>, "ubuntu-status")
               ELSE /\ Fits(status = "running")
                    /\ YieldCheck(
                         format_result("ubuntu", "UBU-02",
                             [status |-> PyBool(status = "running")], DefaultScore, nextId),
                         "UBU-02", Used(seen, <<"pve_ssh">>, "ubuntu-status"))
                    /\ UNCHANGED exc
    /\ UNCHANGED << sess, loc >>

\* the access step that leaves the session to the Proxmox VM open
run_ubuntu_access_keeps_session ==
    /\ wpc = "next" /\ gen = "UBU-02"
    /\ UNCHANGED handlerVars
    /\ \E login \in Logins :
        LET ssh_error == IF login.ok THEN None ELSE SshError(login.e)
            result == format_result("ubuntu", "UBU-03",
                          Raw(login.ok, ssh_error), DefaultScore, nextId)
        IN  /\ sess' = [sess EXCEPT !.ubuntu_ssh = IF login.ok THEN "open" ELSE @]
            /\ IF login.ok
               THEN YieldCheck(result, "UBU-03", seen) /\ UNCHANGED loc
               ELSE /\ YieldCheck(result, "UBU-03-fatal",
                          [seen EXCEPT !.loginFailed = "ubuntu", !.cause = login.e])
                    /\ loc' = [loc EXCEPT !.reason =
                          Str(<<"Ubuntu SSH Access gagal. Test dihentikan. Error: ">> \o ssh_error.s)]
    /\ UNCHANGED << exc, faults >>

run_ubuntu_access ==
    /\ wpc = "next" /\ gen = "UBU-02"
    /\ UNCHANGED handlerVars
    /\ \E login \in Logins :
        LET ssh_error == IF login.ok THEN None ELSE SshError(login.e)
            result == format_result("ubuntu", "UBU-03",
                          Raw(login.ok, ssh_error), DefaultScore, nextId)
        IN  /\ sess' = [sess EXCEPT !.pve_ssh = SSHClose(@),
                                    !.ubuntu_ssh = IF login.ok THEN "open" ELSE @]
            /\ IF login.ok
               THEN YieldCheck(result, "UBU-03", seen) /\ UNCHANGED loc
               ELSE /\ YieldCheck(result, "UBU-03-fatal",
                          [seen EXCEPT !.loginFailed = "ubuntu", !.cause = login.e])
                    /\ loc' = [loc EXCEPT !.reason =
                          Str(<<"Ubuntu SSH Access gagal. Test dihentikan. Error: ">> \o ssh_error.s)]
    /\ UNCHANGED << exc, faults >>

\* raw = checker.method(...); result = format_result(...); add; yield.
\* Every checker but WordPressChecker is built on self.ubuntu_ssh and runs
\* its commands there.
Probe(at, next, category, step_code, raw, costs, points) ==
    /\ wpc = "next" /\ gen = at
    /\ scope.data \notin ReadsAt(at)
    /\ UNCHANGED handlerVars
    /\ costs => faults < MaxFaults
    /\ ~costs => Fits(raw.status = PyTrue)
    /\ faults' = IF costs THEN faults + 1 ELSE faults
    /\ YieldCheck(format_result(category, step_code, raw, points, nextId), next,
           IF category = "wordpress" THEN seen ELSE Used(seen, <<"ubuntu_ssh">>, category))
    /\ UNCHANGED << sess, loc, exc >>

\* a probe over the Ubuntu session: what it observes, and whether the
\* failure of its command is one of the environment's
Ssh(o) == OnSession(sess.ubuntu_ssh, o)

Costs(o) == o.raises /\ sess.ubuntu_ssh = "open"

run_php ==
    \/ \E o \in ProbeOuts :
          Probe("UBU-03", "PHP-01", "php", "PHP-01", check_php_binary(Ssh(o)), Costs(o), DefaultScore)
    \/ \E o \in ProbeOuts :
          Probe("PHP-01", "PHP-02", "php", "PHP-02", check_php_modules(Ssh(o)), Costs(o), DefaultScore)

run_web ==
    \/ \E o \in ProbeOuts :
          Probe("PHP-02", "WEB-01", "web", "WEB-01", check_nginx_binary(Ssh(o)), Costs(o), DefaultScore)
    \/ \E o \in ProbeOuts :
          Probe("WEB-01", "WEB-02", "web", "WEB-02", check_nginx_service(Ssh(o)), Costs(o), DefaultScore)
    \/ \E o \in NginxOuts :
          Probe("WEB-02", "WEB-03", "web", "WEB-03", check_nginx_config_syntax(Ssh(o)), Costs(o), DefaultScore)

db_name == "wordpress"

db_user == "wpuser"

run_mysql ==
    \/ \E o \in ProbeOuts :
          Probe("WEB-03", "SQL-01", "mysql", "SQL-01", check_mysql_binary(Ssh(o)), Costs(o), DefaultScore)
    \/ \E o \in ProbeOuts :
          Probe("SQL-01", "SQL-02", "mysql", "SQL-02", check_mysql_service(Ssh(o)), Costs(o), DefaultScore)
    \/ \E o \in ProbeOuts :
          Probe("SQL-02", "SQL-03", "mysql", "SQL-03", check_database_exists(Ssh(o), db_name), Costs(o), DefaultScore)
    \/ \E o \in ProbeOuts :
          Probe("SQL-03", "SQL-04", "mysql", "SQL-04", check_database_user_exists(Ssh(o), db_user), Costs(o), DefaultScore)
    \/ \E o \in ProbeOuts :
          Probe("SQL-04", "SQL-05", "mysql", "SQL-05", check_wordpress_db_connection(Ssh(o)), Costs(o), 10)

\* the login check talks HTTP, over no SSH session
run_wordpress ==
    \E o \in ProbeOuts :
        Probe("SQL-05", "WP-01", "wordpress", "WP-01", check_wordpress_login(o), o.raises, 15)

run_dns ==
    \/ \E o \in ProbeOuts :
          Probe("WP-01", "DNS-01", "dns", "DNS-01", check_bind_binary(Ssh(o)), Costs(o), DefaultScore)
    \/ \E o \in ProbeOuts :
          Probe("DNS-01", "DNS-02", "dns", "DNS-02", check_bind_service(Ssh(o)), Costs(o), DefaultScore)
    \/ \E o \in ProbeOuts :
          Probe("DNS-02", "DNS-03", "dns", "DNS-03", check_forward_dns(Ssh(o)), Costs(o), DefaultScore)
    \/ \E o \in ProbeOuts :
          Probe("DNS-03", "DNS-04", "dns", "DNS-04", check_reverse_dns(Ssh(o)), Costs(o), DefaultScore)

\* self.data[...][...][...] of a field the payload lacks, outside any try
run_key_error ==
    /\ wpc = "next"
    /\ scope.data \in ReadsAt(gen)
    /\ UNCHANGED handlerVars
    /\ Raise(KeyError(scope.data))
    /\ UNCHANGED << sess, loc, faults >>

\* the finished event yielded once the CMS stage is over
run_finished_early ==
    /\ wpc = "next" /\ gen = "WP-01"
    /\ UNCHANGED handlerVars
    /\ Yield(FinishedEvent(ScoreSummary(score)), "finished")
    /\ UNCHANGED << score, sess, loc, exc, nextId, faults, seen >>

\* yield {"event": "finished", "summary": self.score.summary()}
run_finished ==
    /\ wpc = "next" /\ gen = "DNS-04"
    /\ UNCHANGED handlerVars
    /\ Yield(FinishedEvent(ScoreSummary(score)), "finished")
    /\ UNCHANGED << score, sess, loc, exc, nextId, faults, seen >>

\* the generator returns: the for loop of run_sync ends
run_return ==
    /\ wpc = "next" /\ gen = "finished"
    /\ UNCHANGED handlerVars
    /\ gen' = "returned"
    /\ UNCHANGED << wpc, score, sess, loc, r, exc, nextId, faults, emitted, seen >>

\* ------------------------------------------------------------- run_sync
CancelReason == Str(<<"Test ", "cancelled by user", ".">>)

Pending == Len(callbacks) + (IF cpc = "loop" THEN Len(queue) ELSE 0)

\* loop.call_soon_threadsafe(queue.put_nowait, item)
Push(item) ==
    /\ Pending < scope.pending
    /\ callbacks' = Append(callbacks, item)
    /\ pushed' = Append(pushed, Brief(item))

workerFrame == << nodes, cancel_event, queue, cpc, stop_error, listener, transport,
                  leaderboard, sent, score, sess, loc, exc, nextId, faults, emitted,
                  gen, seen, scope, call, limitVars >>

\* a thread that stays taken when run_sync returns
Release_thread_kept == UNCHANGED pool

\* the thread that ran run_sync returns to the pool
Release == pool' = [pool EXCEPT !.running = @ \ {0}, !.finished = @ \cup {0}]

\* a pool that hands run_sync to a thread whatever the number of threads
worker_start_unbounded ==
    /\ wpc = "queued"
    /\ pool.queue # <<>> /\ Head(pool.queue) = 0
    /\ pool' = [pool EXCEPT !.queue = Tail(@), !.running = @ \cup {0}]
    /\ wpc' = "next"
    /\ UNCHANGED << r, callbacks, pushed >>
    /\ UNCHANGED workerFrame

\* the executor hands run_sync, the oldest work item, to one of its
\* max_workers threads: runner = TestRunner(data, nodes)
worker_start ==
    /\ wpc = "queued"
    /\ pool.queue # <<>> /\ Head(pool.queue) = 0
    /\ Cardinality(pool.running) < max_workers
    /\ pool' = [pool EXCEPT !.queue = Tail(@), !.running = @ \cup {0}]
    /\ wpc' = "next"
    /\ UNCHANGED << r, callbacks, pushed >>
    /\ UNCHANGED workerFrame

\* the loop body without the test of the cancel event
worker_got_deaf ==
    /\ wpc = "got"
    /\ Push(r) /\ wpc' = "next"
    /\ UNCHANGED pool
    /\ r' = Brief(r)
    /\ UNCHANGED workerFrame

\* a loop body that hands over the event it holds before the stop marker
worker_got_flushing ==
    /\ wpc = "got"
    /\ IF cancel_event
       THEN /\ Pending < scope.pending
            /\ callbacks' = callbacks \o <<r, StopMarker(CancelReason)>>
            /\ pushed' = pushed \o <<Brief(r), StopMarker(CancelReason)>>
            /\ wpc' = "done" /\ Release
       ELSE Push(r) /\ wpc' = "next" /\ UNCHANGED pool
    /\ r' = Brief(r)
    /\ UNCHANGED workerFrame

\* the body of: for r in runner.run()
worker_got ==
    /\ wpc = "got"
    /\ IF cancel_event
       THEN Push(StopMarker(CancelReason)) /\ wpc' = "done" /\ Release
       ELSE Push(r) /\ wpc' = "next" /\ UNCHANGED pool
    /\ r' = Brief(r)
    /\ UNCHANGED workerFrame

\* the loop ended: ("_stop", None)
worker_exhausted ==
    /\ wpc = "next" /\ gen = "returned"
    /\ Push(StopMarker(None))
    /\ wpc' = "done" /\ Release
    /\ UNCHANGED r
    /\ UNCHANGED workerFrame

\* except TestStopException as e / except Exception as e: ("_stop", str(e))
worker_except ==
    /\ wpc = "next" /\ gen = "raised"
    /\ Push(StopMarker(PyStrExc(exc)))
    /\ wpc' = "done" /\ Release
    /\ UNCHANGED r
    /\ UNCHANGED workerFrame

\* ---------------------------------------------- the other connections
MaxOthers == 2      \* attempts of other connections

Others == 1..MaxOthers

ownVars == << nodes, wpc, cancel_event, callbacks, queue, cpc, stop_error, listener,
              transport, leaderboard, pushed, sent, scope, call, limitVars >>

\* the handler of another connection reaches loop.run_in_executor(_executor, run_sync)
other_submit ==
    /\ \E i \in Others :
          /\ i \notin pool.running \cup pool.finished
          /\ \A k \in 1..Len(pool.queue) : pool.queue[k] # i
          /\ pool' = [pool EXCEPT !.queue = Append(@, i)]
    /\ UNCHANGED ownVars
    /\ UNCHANGED runnerVars

\* the executor hands the oldest work item, the run_sync of another
\* connection, to one of its max_workers threads
other_start ==
    /\ pool.queue # <<>> /\ Head(pool.queue) # 0
    /\ Cardinality(pool.running) < max_workers
    /\ pool' = [pool EXCEPT !.queue = Tail(@), !.running = @ \cup {Head(pool.queue)}]
    /\ UNCHANGED ownVars
    /\ UNCHANGED runnerVars

\* the run_sync of another connection returns
other_finish ==
    /\ \E i \in pool.running \ {0} :
          pool' = [pool EXCEPT !.running = @ \ {i}, !.finished = @ \cup {i}]
    /\ UNCHANGED ownVars
    /\ UNCHANGED runnerVars

\* ------------------------------------------------------ the event loop
\* the loop puts the item at the head of the queue
loop_run_callback_at_head ==
    /\ callbacks # <<>>
    /\ callbacks' = Tail(callbacks)
    /\ queue' = <<IF cpc = "loop" THEN Head(callbacks) ELSE Brief(Head(callbacks))>> \o queue
    /\ UNCHANGED << nodes, wpc, cancel_event, cpc, stop_error, listener, transport,
                    leaderboard, pushed, sent, scope, pool, call, limitVars >>
    /\ UNCHANGED runnerVars

\* the loop runs the oldest callback: queue.put_nowait(item). Once the
\* handler has left its while loop nothing reads the queue again; what is
\* put there after that is kept by identity only.
loop_run_callback ==
    /\ callbacks # <<>>
    /\ callbacks' = Tail(callbacks)
    /\ queue' = Append(queue, IF cpc = "loop" THEN Head(callbacks) ELSE Brief(Head(callbacks)))
    /\ UNCHANGED << nodes, wpc, cancel_event, cpc, stop_error, listener, transport,
                    leaderboard, pushed, sent, scope, pool, call, limitVars >>
    /\ UNCHANGED runnerVars

\* ----------------------------------------------------------- leaderboard
\* percentages are hundredths: 70.0 is 7000
LEADERBOARD_MIN_PERCENTAGE == 7000

\* a save that stores whatever percentage the run finished with
save_leaderboard_any_percentage(existing, summary) ==
    IF ~existing.present \/ summary.percentage > existing.percentage
    THEN [ present |-> TRUE, total_score |-> summary.total, max_score |-> summary.max,
           percentage |-> summary.percentage, grade |-> summary.grade ]
    ELSE existing

\* if pct < LEADERBOARD_MIN_PERCENTAGE: return; existing = the user's row;
\* if not existing: add a row; elif pct > existing.percentage: overwrite
\* its total_score, max_score, percentage and grade
save_leaderboard_if_success(existing, summary) ==
    IF summary.percentage < LEADERBOARD_MIN_PERCENTAGE THEN existing
    ELSE IF ~existing.present \/ summary.percentage > existing.percentage
    THEN [ present |-> TRUE, total_score |-> summary.total, max_score |-> summary.max,
           percentage |-> summary.percentage, grade |-> summary.grade ]
    ELSE existing

\* ------------------------------------------------- the WebSocket handler
\* item = await queue.get(), and what the loop body does with it
consumer_get ==
    /\ cpc = "loop" /\ queue # <<>>
    /\ queue' = Tail(queue)
    /\ LET item == Head(queue)
       IN  IF item.kind = "_stop"
           THEN /\ stop_error' = item.reason
                /\ cpc' = "join"
                /\ listener' = "done"
                /\ UNCHANGED << sent, leaderboard, seen >>
           ELSE IF transport = "up"
           THEN /\ sent' = Append(sent, Brief(item))
                /\ leaderboard' = IF item.kind = "finished"
                                  THEN save_leaderboard_if_success(leaderboard, item.summary)
                                  ELSE leaderboard
                /\ UNCHANGED << stop_error, cpc, listener, seen >>
           ELSE /\ cpc' = "join"
                /\ listener' = "done"
                /\ seen' = [seen EXCEPT !.sendFailed = TRUE]
                /\ UNCHANGED << stop_error, sent, leaderboard >>
    /\ UNCHANGED << nodes, wpc, cancel_event, callbacks, transport, pushed, scope, pool, call, limitVars >>
    /\ UNCHANGED << gen, score, sess, loc, r, exc, nextId, faults, emitted >>

\* finally: await future; then if stop_error: send the error event; close
consumer_finish ==
    /\ cpc = "join" /\ wpc = "done"
    /\ cpc' = "closed"
    /\ sent' = IF Truthy(stop_error) /\ transport = "up"
               THEN Append(sent, ErrorEvent(stop_error))
               ELSE sent
    /\ seen' = IF Truthy(stop_error) /\ transport = "down"
               THEN [seen EXCEPT !.sendFailed = TRUE]
               ELSE seen
    /\ UNCHANGED << nodes, wpc, cancel_event, callbacks, queue, stop_error, listener,
                    transport, leaderboard, pushed, scope, pool, call, limitVars >>
    /\ UNCHANGED << gen, score, sess, loc, r, exc, nextId, faults, emitted >>

\* cancel_listener: one message received
listener_receive ==
    /\ listener = "listening" /\ transport = "up"
    /\ \E action \in {"cancel", "other"} :
        IF action = "cancel"
        THEN /\ cancel_event' = TRUE
             /\ listener' = "done"
             /\ seen' = [seen EXCEPT !.cancelAt = Cardinality(Checks(emitted)),
                                     !.cancelLen = Len(emitted)]
        ELSE UNCHANGED << cancel_event, listener, seen >>
    /\ UNCHANGED << nodes, wpc, callbacks, queue, cpc, stop_error, transport,
                    leaderboard, pushed, sent, scope, pool, call, limitVars >>
    /\ UNCHANGED << gen, score, sess, loc, r, exc, nextId, faults, emitted >>

\* a listener that takes the failure of receive_json for a cancellation
listener_fail_cancels ==
    /\ listener = "listening" /\ transport = "down"
    /\ listener' = "done"
    /\ cancel_event' = TRUE
    /\ UNCHANGED << nodes, wpc, callbacks, queue, cpc, stop_error,
                    transport, leaderboard, pushed, sent, scope, pool, call, limitVars >>
    /\ UNCHANGED runnerVars

\* receive_json raises on a closed connection: the listener returns
listener_fail ==
    /\ listener = "listening" /\ transport = "down"
    /\ listener' = "done"
    /\ UNCHANGED << nodes, wpc, cancel_event, callbacks, queue, cpc, stop_error,
                    transport, leaderboard, pushed, sent, scope, pool, call, limitVars >>
    /\ UNCHANGED runnerVars

\* the client goes away
client_disconnect ==
    /\ transport = "up" /\ cpc # "closed"
    /\ transport' = "down"
    /\ UNCHANGED << nodes, wpc, cancel_event, callbacks, queue, cpc, stop_error,
                    listener, leaderboard, pushed, sent, scope, pool, call, limitVars >>
    /\ UNCHANGED runnerVars

\* --------------------------------------------------------- specifications
TestRunner ==
    \/ run_start \/ run_connect
    \/ run_proxmox_exists \/ run_proxmox_resources \/ run_proxmox_resource
    \/ run_proxmox_status \/ run_proxmox_access
    \/ run_ubuntu_exists \/ run_ubuntu_resources \/ run_ubuntu_resource
    \/ run_ubuntu_status \/ run_ubuntu_access
    \/ run_php \/ run_web \/ run_mysql \/ run_wordpress \/ run_dns
    \/ run_finished \/ run_return \/ raise_stop

run_sync == worker_start \/ worker_got \/ worker_exhausted \/ worker_except

\* One run with its client: the worker thread, the event loop, the handler,
\* the cancel listener and the client, with one Proxmox node and hosts on
\* which every non-fatal check passes unless its remote call raises.
Init == Start({1}, [probes |-> "pass", pending |-> MaxPending, data |-> "complete"]) /\ call = NoCall /\ pool = OwnPool /\ NoAttempts

Next ==
    \/ run_sync \/ TestRunner
    \/ loop_run_callback \/ consumer_get \/ consumer_finish
    \/ listener_receive \/ listener_fail \/ client_disconnect

Spec == Init /\ [][Next]_vars

\* The same run when the worker thread is scheduled as long as it can take a
\* step (every remote command and HTTP call returns or raises), the event
\* loop runs the callbacks scheduled on it and the handler, while in its
\* loop, takes what is in the queue. Nothing is assumed of the client.
SpecLive ==
    /\ Init /\ [][Next]_vars
    /\ WF_vars(run_sync \/ TestRunner)
    /\ WF_vars(loop_run_callback)
    /\ WF_vars(consumer_get)

\* One run whose client stays connected and sends nothing, under any answers
\* of the hosts.
InitRunner == Start(1..MaxNodes, [probes |-> "any", pending |-> 1, data |-> "complete"]) /\ call = NoCall /\ pool = OwnPool /\ NoAttempts

NextRunner ==
    \/ run_sync \/ TestRunner
    \/ loop_run_callback \/ consumer_get \/ consumer_finish

SpecRunner == InitRunner /\ [][NextRunner]_vars

\* One run, its client connected and silent, on a payload that is complete
\* or lacks a field, over hosts on which every non-fatal check passes unless
\* its remote call raises.
InitPayload ==
    /\ \E field \in PayloadFields \cup {"complete"} :
          Start({1}, [probes |-> "pass", pending |-> 1, data |-> field])
    /\ call = NoCall /\ pool = OwnPool /\ NoAttempts

NextPayload == NextRunner \/ run_key_error

SpecPayload == InitPayload /\ [][NextPayload]_vars

\* One run, its client connected and silent, submitted to an executor that
\* other connections use: some of their attempts are running, some are
\* queued ahead of this one, the rest are submitted later or never.
Pools ==
    { [queue |-> Append(ahead, 0), running |-> running, finished |-> {}, before |-> running] :
        running \in { R \in SUBSET Others : Cardinality(R) <= max_workers },
        ahead \in { q \in SeqsUpTo(Others, MaxOthers) :
                      \A i, j \in 1..Len(q) : q[i] = q[j] => i = j } }

InitPool ==
    /\ Start({1}, [probes |-> "pass", pending |-> 1, data |-> "complete"])
    /\ call = NoCall
    /\ pool \in { p \in Pools : \A k \in 1..Len(p.queue) : p.queue[k] \notin p.running }
    /\ NoAttempts

NextPool == NextRunner \/ other_submit \/ other_start \/ other_finish

\* One run with its client, the cancel listener included, over hosts on
\* which every non-fatal check passes or every non-fatal check fails, for a
\* user who has no row in ukk_test_results or has the row an earlier run
\* stored.
PriorEntries ==
    { NoEntry,
      [present |-> TRUE, total_score |-> 90, max_score |-> 120, percentage |-> 7500, grade |-> "C"],
      [present |-> TRUE, total_score |-> 120, max_score |-> 120, percentage |-> 10000, grade |-> "A"] }

InitBoard ==
    /\ \E entry \in PriorEntries : \E answers \in {"pass", "fail"} :
          StartOver({1}, [probes |-> answers, pending |-> 1, data |-> "complete"], entry)
    /\ call = NoCall /\ pool = OwnPool /\ NoAttempts

SpecBoard == InitBoard /\ [][Next]_vars

\* a thread of the executor that is idle takes the oldest work item
SpecPool == InitPool /\ [][NextPool]_vars /\ WF_vars(worker_start)

\* The formatter and the score manager on their own: results formatted
\* from any raw result and any score, added to a ScoreManager in any
\* sequence of up to MaxAdds, and summarised.
MaxAdds == 3        \* results added to one ScoreManager

Points == {0, 5, 10, 15}

RawStatuses == {PyTrue, PyFalse, "1", "None", "boom"}

RawMessages == {None, Str(<<"VM not found">>)}

RawResults ==
    [status : RawStatuses] \cup [status : RawStatuses, message : RawMessages]
        \cup [message : RawMessages]

\* result = format_result(category, step_code, step_name, raw_result, score)
call_format_result ==
    /\ \E raw_result \in RawResults, points \in Points :
        call' = [ op |-> "format_result", added |-> call.added, sc |-> call.sc,
                  raw_result |-> raw_result, points |-> points,
                  result |-> format_result("php", "PHP-01", raw_result, points, 0) ]
    /\ UNCHANGED << nodes, wpc, cancel_event, callbacks, queue, cpc, stop_error, listener,
                    transport, leaderboard, pushed, sent, scope, pool, limitVars >>
    /\ UNCHANGED runnerVars

\* score.add(result)
call_add ==
    /\ call.op = "format_result" /\ call.added < MaxAdds
    /\ call' = [ op |-> "add", added |-> call.added + 1, sc |-> ScoreAdd(call.sc, call.result),
                 result |-> call.result ]
    /\ UNCHANGED << nodes, wpc, cancel_event, callbacks, queue, cpc, stop_error, listener,
                    transport, leaderboard, pushed, sent, scope, pool, limitVars >>
    /\ UNCHANGED runnerVars

\* score.summary()
call_summary ==
    /\ call.op \in {"ScoreManager", "add"}
    /\ call' = [ op |-> "summary", added |-> call.added, sc |-> call.sc,
                 summary |-> ScoreSummary(call.sc) ]
    /\ UNCHANGED << nodes, wpc, cancel_event, callbacks, queue, cpc, stop_error, listener,
                    transport, leaderboard, pushed, sent, scope, pool, limitVars >>
    /\ UNCHANGED runnerVars

InitScoring ==
    /\ Start({1}, [probes |-> "any", pending |-> 1, data |-> "complete"])
    /\ call = [op |-> "ScoreManager", added |-> 0, sc |-> ScoreInit]
    /\ pool = OwnPool /\ NoAttempts

NextScoring == call_format_result \/ call_add \/ call_summary

SpecScoring == InitScoring /\ [][NextScoring]_vars

\* The summary on its own: a ScoreManager to which k results of 5 points
\* were added, j of them successful (one result per key of
\* expected.resources, whose number the code does not bound), summarised.
ResultCounts == {0, 1, 3, 10, 20, 2003, 2009}

InitSummary ==
    /\ Start({1}, [probes |-> "any", pending |-> 1, data |-> "complete"])
    /\ pool = OwnPool /\ NoAttempts
    /\ \E k \in ResultCounts : \E j \in 0..k :
          call = [ op |-> "ScoreManager", added |-> k,
                   sc |-> [total_score |-> 5 * j, max_score |-> 5 * k] ]

NextSummary == call_summary

SpecSummary == InitSummary /\ [][NextSummary]_vars

\* compare on its own: any two dicts of up to MaxDict keys
MaxDict == 2        \* keys of one dict handed to compare

CompareKeys == {"cores", "memory", "disk_size"}

CompareValues == {"None", "2", "2048", "4096"}

Dicts ==
    { d \in SeqsUpTo(CompareKeys \X CompareValues, MaxDict) :
        \A i, j \in 1..Len(d) : d[i][1] = d[j][1] => i = j }

\* results = compare(actual, expected)
call_compare ==
    /\ call.op = "dicts"
    /\ call' = [ op |-> "compare", actual |-> call.actual, expected |-> call.expected,
                 results |-> compare(call.actual, call.expected) ]
    /\ UNCHANGED << nodes, wpc, cancel_event, callbacks, queue, cpc, stop_error, listener,
                    transport, leaderboard, pushed, sent, scope, pool, limitVars >>
    /\ UNCHANGED runnerVars

InitCompare ==
    /\ Start({1}, [probes |-> "any", pending |-> 1, data |-> "complete"])
    /\ pool = OwnPool /\ NoAttempts
    /\ \E actual \in Dicts, expected \in Dicts :
          call = [op |-> "dicts", actual |-> actual, expected |-> expected]

NextCompare == call_compare

SpecCompare == InitCompare /\ [][NextCompare]_vars

\* ----------------------------------------------------------------- claims
\* The client sees Finished as the event "finished" and Stopped as the event
\* "error".
Finisheds(h) == { i \in 1..Len(h) : h[i].kind = "finished" }

Stoppeds(h) == { i \in 1..Len(h) : h[i].kind = "error" }

\* the handler has closed the connection and no send met a closed transport
Closed == cpc = "closed" /\ transport = "up" /\ ~seen.sendFailed

\* C1: once the handler has closed a run whose transport never failed, the
\* client has been sent exactly one terminal event: one Finished or one
\* Stopped, not both and not neither, however the worker ended.
C1_OneTerminalEvent ==
    Closed => Cardinality(Finisheds(sent)) + Cardinality(Stoppeds(sent)) = 1

\* C1: a run closed after the pipeline raised an exception whose text is
\* empty
C1_EmptyTextClosed ==
    /\ Closed
    /\ exc.type = "EOFError"
    /\ Finisheds(sent) = {} /\ Stoppeds(sent) = {}

\* the cancel event was set when N check events had been yielded, and the
\* (N+1)-th check event was yielded after that
CancelledInFlight ==
    seen.cancelAt >= 0 /\ Cardinality(Checks(emitted)) > seen.cancelAt

\* C2: when the cancel event is set after the N-th check event and before
\* the (N+1)-th, the pipeline yields no check beyond the (N+1)-th, the worker
\* ends by pushing the stop marker with the cancel reason, no Finished event
\* is yielded, pushed or sent, and a handler that closes with the transport
\* intact has sent, last, the one Stopped event, whose reason contains
\* "cancelled by user".
C2_CancelStopsAfterInFlight ==
    /\ seen.cancelAt >= 0 => Cardinality(Checks(emitted)) <= seen.cancelAt + 1
    /\ CancelledInFlight =>
        /\ Finisheds(emitted) = {} /\ Finisheds(pushed) = {} /\ Finisheds(sent) = {}
        /\ wpc = "done" => pushed[Len(pushed)] = StopMarker(CancelReason)
        /\ Closed =>
            /\ Stoppeds(sent) = {Len(sent)}
            /\ Contains(sent[Len(sent)].message, Str(<<"cancelled by user">>))

\* C2: a closed run cancelled after its second check event, whose third
\* check was in flight
C2_CancelledAfterSecondCheck ==
    /\ Closed /\ CancelledInFlight
    /\ seen.cancelAt = 2
    /\ sent[Len(sent)] = ErrorEvent(CancelReason)

\* the check results of step code among the events h
CodeChecks(h, code) == { i \in Checks(h) : h[i].step_code = code }

\* The existence check code is the last event yielded and the only one with
\* its code, it is failed, the pipeline ends with the stop exception, and a
\* closed handler has sent the yielded events followed by Stopped.
NotFoundStops(code) ==
    /\ emitted # <<>>
    /\ CodeChecks(emitted, code) = {Len(emitted)}
    /\ wpc = "got" => r.kind = "check" /\ r.step_code = code /\ r.status = "failed"
    /\ gen \in {code \o "-fatal", "raised"}
    /\ gen = "raised" => exc.type = "TestStopException"
    /\ Closed =>
        /\ sent = Append(emitted, ErrorEvent(Str(exc.text)))
        /\ Truthy(Str(exc.text))

\* C3: when every host of a discovery has answered and no listing holds the
\* requested name (Proxmox discovery over the nodes, Ubuntu discovery over
\* the Proxmox VM), exactly one failed existence check is yielded (PVE-01,
\* UBU-01), nothing is yielded after it, and the event sent next is Stopped.
C3_NotFoundStops ==
    /\ seen.pve = "unlisted" => NotFoundStops("PVE-01")
    /\ seen.ubu = "unlisted" => NotFoundStops("UBU-01")

\* C3: a closed run whose Ubuntu discovery found the name in no listing
C3_UbuntuNotListed ==
    /\ Closed
    /\ seen.ubu = "unlisted"
    /\ Stoppeds(sent) = {Len(sent)}

\* the access check of the stage whose login failed
AccessCode == IF seen.loginFailed = "proxmox" THEN "PVE-03" ELSE "UBU-03"

\* The access check is the last event yielded and the only one with its
\* code, it is failed with score 0 and the given message, the pipeline ends
\* with the stop exception whose text contains the message, and a closed
\* handler has sent the yielded events followed by Stopped with that text.
LoginFailureStops(message) ==
    /\ emitted # <<>>
    /\ CodeChecks(emitted, AccessCode) = {Len(emitted)}
    /\ wpc = "got" =>
        /\ r.kind = "check" /\ r.step_code = AccessCode
        /\ r.status = "failed" /\ r.score = 0
        /\ r.message = message
    /\ gen \in {AccessCode \o "-fatal", "raised"}
    /\ gen = "raised" =>
        /\ exc.type = "TestStopException"
        /\ Contains(Str(exc.text), message)
    /\ Closed => sent = Append(emitted, ErrorEvent(Str(exc.text)))

\* C4: when the login of Proxmox-Access or Ubuntu-Access raises e, the access
\* check (PVE-03, UBU-03) is still yielded, failed, with score 0 and the
\* message str(e), or the name of e's type when str(e) is empty; the event
\* sent next is Stopped with a reason that contains that message; nothing
\* is yielded after the access check.
C4_LoginFailureStops ==
    seen.loginFailed # "none" =>
        LoginFailureStops(IF seen.cause.text # <<>> THEN Str(seen.cause.text)
                          ELSE Str(<<seen.cause.type>>))

\* C4, as stated: the message of the failed access check equals the cause
\* string str(e) of the exception the login raised.
C4_MessageIsCause ==
    seen.loginFailed # "none" => LoginFailureStops(Str(seen.cause.text))

\* C4: a closed run whose Ubuntu login raised an exception with a text
C4_UbuntuLoginFailed ==
    /\ Closed
    /\ seen.loginFailed = "ubuntu"
    /\ seen.cause.text # <<>>
    /\ Stoppeds(sent) = {Len(sent)}
    /\ Contains(sent[Len(sent)].message, Str(seen.cause.text))

\* the Proxmox VM was found, no login failed, and the Ubuntu VM was found if
\* its discovery was reached
NothingFatal ==
    /\ seen.pve = "listed"
    /\ seen.loginFailed = "none"
    /\ seen.ubu = "listed" \/ CodeChecks(emitted, "PVE-03") = {}

\* C5: in a run without cancellation in which the VMs are found and the
\* logins succeed, the worker ends only after the pipeline has yielded
\* Finished, whatever the other checks observe and whichever of their remote
\* commands raise.
C5_OnlyFatalStops ==
    (wpc = "done" /\ NothingFatal) => Finisheds(emitted) # {}

\* C5: the worker ended after the command of the Proxmox resource inspection
\* raised: the VM was found, PVE-01 is the last event yielded
C5_ResourceInspectionRaised ==
    /\ wpc = "done" /\ NothingFatal
    /\ gen = "raised" /\ exc.type = "SSHException"
    /\ CodeChecks(emitted, "PVE-01") = {Len(emitted)}

\* the place of a check in the fixed order of stages
StageOf(code) ==
    CASE code = "PVE-01" -> 1
      [] code \in {"PVE-RES-CORES", "PVE-RES-DISK_SIZE"} -> 2
      [] code = "PVE-02" -> 3
      [] code = "PVE-03" -> 4
      [] code = "UBU-01" -> 5
      [] code \in {"UBU-RES-CORES", "UBU-RES-DISK_SIZE"} -> 6
      [] code = "UBU-02" -> 7
      [] code = "UBU-03" -> 8
      [] code \in {"PHP-01", "PHP-02"} -> 9
      [] code \in {"WEB-01", "WEB-02", "WEB-03"} -> 10
      [] code \in {"SQL-01", "SQL-02", "SQL-03", "SQL-04", "SQL-05"} -> 11
      [] code = "WP-01" -> 12
      [] code \in {"DNS-01", "DNS-02", "DNS-03", "DNS-04"} -> 13
      [] OTHER -> 0

\* C6: the events a run yields are in the fixed order: start is the first
\* event and the only start; the checks come by stage in the order Proxmox
\* existence, resources, status, access, Ubuntu existence, resources,
\* status, access, PHP, Web, Database, CMS, DNS, none of an earlier stage
\* after one of a later stage; Finished is the last event and its
\* predecessor is the last DNS check.
C6_FixedStageOrder ==
    /\ emitted # <<>> => { i \in 1..Len(emitted) : emitted[i].kind = "start" } = {1}
    /\ \A i \in Checks(emitted) : StageOf(emitted[i].step_code) > 0
    /\ \A i, j \in Checks(emitted) :
           i < j => StageOf(emitted[i].step_code) <= StageOf(emitted[j].step_code)
    /\ \A f \in Finisheds(emitted) :
           /\ f = Len(emitted)
           /\ CodeChecks(emitted, "DNS-04") = {f - 1}

\* C6: a run that yielded Finished after checks of every stage, resource
\* checks included
C6_FullRunYielded ==
    /\ Finisheds(emitted) # {}
    /\ { StageOf(emitted[i].step_code) : i \in Checks(emitted) } = 1..13

\* the events the handler forwarded from the queue: what was sent, less the
\* Stopped event the handler adds when it closes
Forwarded ==
    IF sent # <<>> /\ sent[Len(sent)].kind = "error"
    THEN SubSeq(sent, 1, Len(sent) - 1) ELSE sent

\* the events the worker pushed: what it handed to the loop, less the stop
\* marker it ends with
PushedEvents ==
    IF pushed # <<>> /\ pushed[Len(pushed)].kind = "_stop"
    THEN SubSeq(pushed, 1, Len(pushed) - 1) ELSE pushed

IsPrefix(s, t) == Len(s) <= Len(t) /\ s = SubSeq(t, 1, Len(s))

\* C7: at every moment, under every interleaving of the worker thread, the
\* loop, the handler, the cancel listener and the client, the events
\* forwarded are a prefix of the events pushed, which are a prefix of the
\* events yielded: same events, same order, none twice; and a handler that
\* closes with the transport intact has forwarded every event pushed.
C7_ForwardedInOrder ==
    /\ IsPrefix(Forwarded, PushedEvents)
    /\ IsPrefix(PushedEvents, emitted)
    /\ \A i, j \in 1..Len(sent) : sent[i] = sent[j] => i = j
    /\ Closed => Forwarded = PushedEvents

\* C7: three events forwarded, a fourth in the queue and a fifth waiting in
\* the loop, the cancel event set meanwhile
C7_ThreePartiesBusy ==
    /\ Len(Forwarded) = 3 /\ Len(queue) = 1 /\ Len(callbacks) = 1
    /\ queue[1].kind = "check" /\ callbacks[1].kind = "check"
    /\ cancel_event

\* C8: the summary of a Finished event holds, as total and max, the sums of
\* score and max_score over the check results yielded before it in the same
\* run, each counted once (seen.sumScore and seen.sumMax are summed from the
\* yielded results); the same summary is the one pushed and sent.
C8_SummaryOfYieldedChecks ==
    /\ \A f \in Finisheds(emitted) :
           /\ emitted[f].summary.total = seen.sumScore
           /\ emitted[f].summary.max = seen.sumMax
           /\ Cardinality(Checks(emitted)) = nextId - 1
    /\ \A f \in Finisheds(pushed) : pushed[f] = emitted[f]
    /\ \A f \in Finisheds(sent) : sent[f] = emitted[f]

\* C8: a Finished event sent for a run in which some checks failed and some
\* succeeded
C8_MixedRunFinished ==
    /\ Finisheds(sent) # {}
    /\ seen.sumScore > 0 /\ seen.sumScore < seen.sumMax
    /\ sent[Len(sent)].summary.total = seen.sumScore

\* C9: the summary of a ScoreManager to which any results of format_result
\* were added has total <= max and a percentage between 0 and 100 (in
\* hundredths: 0 and 10000), and the percentage is 0 when max is 0.
C9_SummaryInRange ==
    call.op = "summary" =>
        /\ call.summary.total <= call.summary.max
        /\ 0 <= call.summary.percentage /\ call.summary.percentage <= 10000
        /\ call.summary.max = 0 => call.summary.percentage = 0
        /\ call.summary.total = call.summary.max /\ call.summary.max > 0
               => call.summary.percentage = 10000

\* C9: the summary after three results, one of them successful: 5 of 15,
\* 33.33 percent
C9_OneOfThree ==
    /\ call.op = "summary" /\ call.added = 3
    /\ call.summary.total = 5 /\ call.summary.max = 15
    /\ call.summary.percentage = 3333

\* C10: format_result maps a raw status True to status success and score
\* max_score, False to failed and 0, and any other value to error and 0 (a
\* raw result without a status is read as False); so the score is 0 or
\* max_score, and for max_score > 0 it is max_score exactly when the status
\* is success.
C10_FormatTriState ==
    call.op = "format_result" =>
        LET raw == call.raw_result
            res == call.result
            given == "status" \in DOMAIN raw
        IN  /\ res.max_score = call.points
            /\ given /\ raw.status = PyTrue => res.status = "success" /\ res.score = call.points
            /\ given /\ raw.status = PyFalse => res.status = "failed" /\ res.score = 0
            /\ given /\ raw.status \notin {PyTrue, PyFalse} => res.status = "error" /\ res.score = 0
            /\ ~given => res.status = "failed" /\ res.score = 0
            /\ res.score \in {0, res.max_score}
            /\ res.max_score > 0 => (res.score = res.max_score <=> res.status = "success")

\* C10: a raw status that is neither True nor False, formatted with
\* max_score 5
C10_AmbiguousStatus ==
    /\ call.op = "format_result"
    /\ call.raw_result = [status |-> "boom"] /\ call.points = 5
    /\ call.result.status = "error" /\ call.result.score = 0 /\ call.result.max_score = 5

\* the grade the thresholds give to a percentage in hundredths
GradeOf(percentage) ==
    IF percentage >= 9000 THEN "A"
    ELSE IF percentage >= 8000 THEN "B"
    ELSE IF percentage >= 7000 THEN "C"
    ELSE "D"

\* C11: the grade of a summary is the grade of the percentage reported in
\* the same summary (the value rounded to two decimals): A from 90, B from 80
\* below 90, C from 70 below 80, D below 70, for every total <= max.
C11_GradeOfReportedPercentage ==
    call.op = "summary" => call.summary.grade = GradeOf(call.summary.percentage)

\* C11: 1402 of 2003 results succeeded: the summary reports 70.0 percent
\* and the grade D
C11_SeventyPercentGradedD ==
    /\ call.op = "summary"
    /\ call.summary.total = 7010 /\ call.summary.max = 10015
    /\ call.summary.percentage = 7000
    /\ call.summary.grade = "D"

\* the entries of results under key
EntriesOf(results, key) == { i \in 1..Len(results) : results[i].key = key }

\* the value d holds under key (d has the key)
ValueIn(d, key) == d[CHOOSE i \in 1..Len(d) : d[i][1] = key][2]

\* C12: compare(actual, expected) returns exactly one entry per key of
\* expected and none for a key that only actual has; the entry of a key
\* holds the expected value, the value actual has under the key (None when
\* actual lacks the key), and a status that is True exactly when the two are
\* equal.
C12_CompareExpectationDriven ==
    call.op = "compare" =>
        /\ \A key \in DictKeys(call.expected) :
              /\ Cardinality(EntriesOf(call.results, key)) = 1
              /\ \A i \in EntriesOf(call.results, key) :
                    LET entry == call.results[i]
                    IN  /\ entry.expected = ValueIn(call.expected, key)
                        /\ entry.actual = IF key \in DictKeys(call.actual)
                                          THEN ValueIn(call.actual, key) ELSE "None"
                        /\ entry.status \in {PyTrue, PyFalse}
                        /\ entry.status = PyTrue <=> entry.actual = entry.expected
        /\ \A key \in CompareKeys \ DictKeys(call.expected) :
              EntriesOf(call.results, key) = {}
        /\ Len(call.results) = Len(call.expected)

\* C12: cores matches, memory differs, and actual has a key of its own
C12_OneMatchOneMismatch ==
    /\ call.op = "compare"
    /\ call.actual = << <<"disk_size", "2">>, <<"memory", "2048">> >>
    /\ call.expected = << <<"memory", "4096">>, <<"cores", "None">> >>
    /\ call.results =
         << [key |-> "memory", expected |-> "4096", actual |-> "2048", status |-> PyFalse],
            [key |-> "cores", expected |-> "None", actual |-> "None", status |-> PyTrue] >>

\* the stages that ran a command on a session
StagesOn(session) == { u.stage : u \in { v \in seen.uses : v.session = session } }

\* the sessions to hosts other than the one the named session goes to
OpenElsewhere(name) ==
    \/ name # "nodes_ssh" /\ \E i \in 1..Len(sess.nodes_ssh) : sess.nodes_ssh[i] = "open"
    \/ name # "pve_ssh" /\ sess.pve_ssh = "open"
    \/ name # "ubuntu_ssh" /\ sess.ubuntu_ssh = "open"

\* C13, as stated: no session runs the commands of more than one stage, and
\* while the session to one host is open no session to another host is.
C13_SessionPerStage ==
    /\ \A u \in seen.uses : StagesOn(u.session) = {u.stage}
    /\ \A name \in {"pve_ssh", "ubuntu_ssh"} : sess[name] = "open" => ~OpenElsewhere(name)

\* the session variable a stage takes its session from
HostOf(stage) ==
    IF stage \in {"proxmox-exists", "proxmox-resources", "proxmox-status"} THEN "nodes_ssh"
    ELSE IF stage \in {"ubuntu-exists", "ubuntu-resources", "ubuntu-status"} THEN "pve_ssh"
    ELSE "ubuntu_ssh"

\* C13: sessions are per host. The Proxmox stages run on the node sessions
\* (resources and status on the session of the node that holds the VM), the
\* Ubuntu existence, resources and status stages on the one session to the
\* Proxmox VM, and PHP, Web, Database and DNS on the one session to the
\* Ubuntu VM, which the pipeline never closes. Once the Proxmox access check
\* is yielded the session of the node that holds the VM is closed, and once
\* the Ubuntu access check is yielded the session to the Proxmox VM is.
C13_SessionPerHost ==
    /\ \A u \in seen.uses :
          /\ u.session[1] = HostOf(u.stage)
          /\ u.stage \in {"proxmox-resources", "proxmox-status"} => u.session = <<"nodes_ssh", loc.vm>>
    /\ CodeChecks(emitted, "PVE-03") # {} => sess.nodes_ssh[loc.vm] = "closed"
    /\ CodeChecks(emitted, "UBU-03") # {} => sess.pve_ssh = "closed"
    /\ sess.pve_ssh = "open" => sess.nodes_ssh[loc.vm] = "closed"
    /\ sess.ubuntu_ssh = "open" => sess.pve_ssh = "closed"
    /\ sess.ubuntu_ssh # "closed"

\* C13: a finished run whose PHP, Web, Database and DNS stages ran on the
\* session to the Ubuntu VM, still open
C13_FourStagesOneSession ==
    /\ Finisheds(emitted) # {}
    /\ StagesOn(<<"ubuntu_ssh">>) = {"php", "web", "mysql", "dns"}
    /\ sess.ubuntu_ssh = "open" /\ sess.pve_ssh = "closed"

\* the check that needs a field of the payload
CheckOf(field) ==
    CASE field = "vm_proxmox.inputs.name" -> "PVE-01"
      [] field = "vm_proxmox.expected.resources" -> "PVE-RES-CORES"
      [] field = "vm_proxmox.inputs.host" -> "PVE-03"
      [] field = "php.expected.modules" -> "PHP-02"
      [] field = "mysql.inputs.db_name" -> "SQL-03"
      [] field = "wordpress.inputs.url" -> "WP-01"
      [] field = "dns.expected.ip" -> "DNS-03"

\* C14: a payload that lacks a field a check needs never aborts the run:
\* no KeyError leaves the pipeline, and once the worker has ended the check
\* that needs the field was yielded unless a fatal stop or a failure of a
\* remote command ended the run before it.
C14_MalformedInputFailsCheck ==
    scope.data # "complete" =>
        /\ exc.type # "KeyError"
        /\ (wpc = "done" /\ exc = NoException) => CodeChecks(emitted, CheckOf(scope.data)) # {}

\* C14: a closed run on a payload without php.expected.modules: PHP-01 is the
\* last event yielded, no PHP-02 was, and the client was sent Stopped with
\* the text of the KeyError
C14_NoModulesAborted ==
    /\ Closed
    /\ scope.data = "php.expected.modules"
    /\ exc = KeyError("php.expected.modules")
    /\ CodeChecks(emitted, "PHP-01") = {Len(emitted)}
    /\ CodeChecks(emitted, "PHP-02") = {}
    /\ sent[Len(sent)] = ErrorEvent(Str(<<"'", "modules", "'">>))

\* a step in which the remote or HTTP call of a checker raised and the
\* check was yielded all the same
ProbeRaised == faults' = faults + 1 /\ wpc' = "got"

\* C15: when the call of a checker raises, the check is yielded with status
\* error, score 0 and the text of the exception as message, and the
\* pipeline goes on to the next check.
C15_ProbeErrorRecorded ==
    [][ ProbeRaised =>
          /\ r'.kind = "check"
          /\ r'.status = "error"
          /\ r'.score = 0
          /\ r'.message \in { PyStrExc(e) : e \in Excs }
          /\ gen' = r'.step_code ]_vars

\* C15: the command of check_mysql_binary raised SSHException: SQL-01 is
\* yielded as failed, with the text of the exception
C15_RaisedProbeFailed ==
    /\ wpc = "got" /\ faults = 1
    /\ r.kind = "check" /\ r.step_code = "SQL-01"
    /\ r.status = "failed" /\ r.score = 0
    /\ r.message = Str(<<"No existing session">>)

\* a step in which a remote command of a checker raised (the connects of
\* TestRunner.run are made at "start", by no checker)
CommandRaised == faults' = faults + 1 /\ gen # "start"

\* C16: no checker method lets an exception out. In the step in which its
\* remote command raises, the generator does not raise: the check is
\* yielded from a raw result with status False (so failed) and the text of
\* the exception as message; and no output makes the parser's ValueError
\* leave the resource inspection.
C16_CheckersNeverPropagate ==
    [][ /\ CommandRaised =>
              /\ gen' # "raised"
              /\ r'.kind = "check" /\ r'.status = "failed"
              /\ r'.message \in { PyStrExc(e) : e \in Excs }
        /\ exc'.type # "ValueError" ]_vars

\* C16: a closed run in which "hostname && qm list" raised inside find_vm:
\* the exception left the VM locator before any check, and the client was
\* sent Stopped with its text
C16_LocatorPropagated ==
    /\ Closed
    /\ exc.type = "SSHException"
    /\ seen.uses = {[session |-> <<"nodes_ssh", 1>>, stage |-> "proxmox-exists"]}
    /\ Checks(emitted) = {}
    /\ sent[Len(sent)] = ErrorEvent(Str(exc.text))

\* this attempt is the oldest work item and a thread of the pool is idle
Admissible ==
    /\ wpc = "queued"
    /\ Head(pool.queue) = 0
    /\ Cardinality(pool.running) < max_workers

\* C17: at any time at most 2 pipelines are executing, this one counted
\* when its worker is running; while this attempt is queued it has yielded
\* nothing and opened no session; it is in the work queue exactly while it
\* waits, on a thread exactly while it runs and returned exactly when its
\* worker is done; it leaves the queue only when fewer than 2 are running;
\* and once it is the oldest work item and a thread is idle, it is started.
C17_AtMostTwoPipelines ==
    /\ [](/\ Cardinality(pool.running) <= 2
          /\ wpc = "queued" =>
                /\ emitted = <<>> /\ seen.uses = {}
                /\ sess = [nodes_ssh |-> <<>>, pve_ssh |-> "none", ubuntu_ssh |-> "none"]
          /\ wpc = "queued" <=> (\E k \in 1..Len(pool.queue) : pool.queue[k] = 0)
          /\ wpc \in {"next", "got"} <=> 0 \in pool.running
          /\ wpc = "done" <=> 0 \in pool.finished)
    /\ [][wpc = "queued" /\ wpc' # "queued" => Cardinality(pool.running) < 2]_vars
    /\ (Admissible ~> wpc # "queued")

\* C17: this attempt was submitted while two others were running, and its
\* worker has run the pipeline to Finished
C17_QueuedThenFinished ==
    /\ Cardinality(pool.before) = 2
    /\ wpc = "done"
    /\ Finisheds(emitted) # {}
    /\ Cardinality(pool.running) <= 2

\* the row a summary is stored as
EntryOf(summary) ==
    [ present |-> TRUE, total_score |-> summary.total, max_score |-> summary.max,
      percentage |-> summary.percentage, grade |-> summary.grade ]

\* a step changes the user's row only by sending the client a Finished event
\* whose percentage is at least 70, and the row becomes that summary
BoardChange ==
    leaderboard' # leaderboard =>
        /\ cpc = "loop" /\ queue # <<>> /\ transport = "up"
        /\ Head(queue).kind = "finished"
        /\ Head(queue).summary.percentage >= LEADERBOARD_MIN_PERCENTAGE
        /\ sent' = Append(sent, Head(queue))
        /\ leaderboard' = EntryOf(Head(queue).summary)

\* C18: the user's leaderboard row is written or changed only in the step
\* that delivers a Finished event with percentage >= 70 of a run of that
\* user; a run that was sent Stopped was sent no Finished, so it (like a run
\* finishing below 70) leaves the row as it was; and a stored row has
\* percentage >= 70.
C18_QualifyingFinishOnly ==
    /\ [](leaderboard.present => leaderboard.percentage >= LEADERBOARD_MIN_PERCENTAGE)
    /\ [](Stoppeds(sent) # {} => Finisheds(sent) = {})
    /\ [][BoardChange]_vars

\* C18: a run that delivered Finished at 70 percent or more has written the
\* row of a user who had none
C18_FirstRowWritten ==
    /\ ~seen.row.present /\ leaderboard.present
    /\ \E i \in Finisheds(sent) :
          /\ sent[i].summary.percentage >= LEADERBOARD_MIN_PERCENTAGE
          /\ leaderboard = EntryOf(sent[i].summary)
    /\ scope.probes = "pass"

\* C19: the user has at most one row (the model holds one, as the unique
\* user_id column does), and once the row is present no step changes any of
\* its fields.
C19_FirstCompletionKept ==
    /\ [](seen.row.present => leaderboard = seen.row)
    /\ [][leaderboard.present => leaderboard' = leaderboard]_vars

\* C19: a user whose row held 75 percent, grade C, ran again and finished
\* higher; the row now holds the later run
C19_LaterRunOverwrote ==
    /\ seen.row.present /\ seen.row.percentage = 7500 /\ seen.row.grade = "C"
    /\ leaderboard # seen.row
    /\ leaderboard.percentage = 9583 /\ leaderboard.grade = "A"
    /\ \E i \in Finisheds(sent) : leaderboard = EntryOf(sent[i].summary)
    /\ scope.probes = "pass" /\ faults = 1

\* ------------------------------------------------- _check_test_rate_limit
\* seconds the clock advances by in one step
Tick == 30

\* [t for t in times if now - t < TEST_RATE_LIMIT_WINDOW_SECONDS]
Recent(times, now) ==
    SelectSeq(times, LAMBDA t : now - t < TEST_RATE_LIMIT_WINDOW_SECONDS)

\* a limiter that also records the attempts it turns away
check_test_rate_limit_counting_all(times, now) ==
    LET kept == Recent(times, now)
    IN  [ allowed |-> Len(kept) < TEST_RATE_LIMIT_MAX_REQUESTS,
          times |-> Append(kept, now) ]

\* the body run under _test_rate_limit_lock, on the list of one user: the
\* answer, and the list as it is left
check_test_rate_limit(times, now) ==
    LET kept == Recent(times, now)
    IN  IF Len(kept) >= TEST_RATE_LIMIT_MAX_REQUESTS
        THEN [allowed |-> FALSE, times |-> kept]
        ELSE [allowed |-> TRUE, times |-> Append(kept, now)]

RECURSIVE TotalOver(_, _)
TotalOver(f, n) == IF n = 0 THEN 0 ELSE Len(f[n]) + TotalOver(f, n - 1)

\* the attempts let through so far, all users together
Total(f) == TotalOver(f, MaxUsers)

runVars == << nodes, wpc, gen, score, sess, loc, r, exc, nextId, faults, cancel_event,
              callbacks, queue, cpc, stop_error, listener, transport, leaderboard,
              emitted, pushed, sent, seen, scope, pool, call >>

\* allowed = await _check_test_rate_limit(user.id), in the handler of a
\* connection of user u. The body holds the lock and has no await: it runs
\* to its end before any other handler runs.
check_rate_limit ==
    /\ \E u \in Users :
        LET out == check_test_rate_limit(test_rate_limit_storage[u], clock)
        IN  /\ out.allowed => Total(admitted) < MaxAttempts
            /\ test_rate_limit_storage' = [test_rate_limit_storage EXCEPT ![u] = out.times]
            /\ admitted' = IF out.allowed
                           THEN [admitted EXCEPT ![u] = Append(@, clock)]
                           ELSE admitted
            /\ attempt' = [user |-> u, at |-> clock, allowed |-> out.allowed]
    /\ UNCHANGED clock
    /\ UNCHANGED runVars

\* time passes
clock_tick ==
    /\ clock + Tick <= MaxTicks * Tick
    /\ clock' = clock + Tick
    /\ UNCHANGED << test_rate_limit_storage, admitted, attempt >>
    /\ UNCHANGED runVars

\* The handlers of the connections of MaxUsers users reaching the limiter,
\* in any order, as time passes.
InitLimit ==
    /\ Start({1}, [probes |-> "pass", pending |-> 1, data |-> "complete"])
    /\ call = NoCall /\ pool = OwnPool /\ NoAttempts

NextLimit == check_rate_limit \/ clock_tick

SpecLimit == InitLimit /\ [][NextLimit]_vars

\* the attempts of user u the limiter let through at a time t with
\* from < t <= to
LetThrough(u, from, to) ==
    { i \in 1..Len(admitted[u]) : from < admitted[u][i] /\ admitted[u][i] <= to }

\* the limiter has just decided an attempt of user u
Decided(u) == attempt'.user = u /\ (attempt' # attempt \/ admitted' # admitted)

\* C20: for each user, in any window of 60 seconds (from < t <= from + 60) at
\* most 10 attempts are let through; an attempt is let through exactly when
\* fewer than 10 attempts of the same user were let through in the 60
\* seconds before it, whatever the attempts turned away and whatever the
\* other users did; and an attempt changes nothing of another user.
C20_TenPerWindowPerUser ==
    /\ [](\A u \in Users : \A to \in 0..clock :
            Cardinality(LetThrough(u, to - TEST_RATE_LIMIT_WINDOW_SECONDS, to))
                <= TEST_RATE_LIMIT_MAX_REQUESTS)
    /\ [][\A u \in Users :
            /\ Decided(u) =>
                 /\ attempt'.allowed <=>
                      Cardinality(LetThrough(u, clock - TEST_RATE_LIMIT_WINDOW_SECONDS, clock))
                          < TEST_RATE_LIMIT_MAX_REQUESTS
                 /\ attempt'.allowed <=> admitted'[u] = Append(admitted[u], clock)
                 /\ ~attempt'.allowed => admitted'[u] = admitted[u]
                 /\ \A v \in Users \ {u} :
                      /\ admitted'[v] = admitted[v]
                      /\ test_rate_limit_storage'[v] = test_rate_limit_storage[v]
         ]_vars

\* C20: a user was let through 10 times at time 0, not once in the next 59
\* seconds, and again at 60, while the other user was let through at 30
C20_RefusedThenAdmitted ==
    /\ \E u \in Users : \E v \in Users \ {u} :
          /\ Cardinality(LetThrough(u, -1, 0)) = 10
          /\ Cardinality(LetThrough(u, 0, 30)) = 0
          /\ Cardinality(LetThrough(v, 0, 30)) = 1
          /\ attempt = [user |-> u, at |-> 60, allowed |-> TRUE]
          /\ Len(test_rate_limit_storage[u]) = 1

\* the checks a run yields whatever the payload: PVE-01..03, UBU-01..03,
\* PHP-01..02, WEB-01..03, SQL-01..05, WP-01, DNS-01..04
FixedChecks == 21

\* C21: a run yields at most the fixed checks plus one check per key under
\* the expected resources it compared; the worker that is done has handed
\* the stop marker to the loop as its last item and its thread is back in
\* the pool; and, the thread being scheduled and every call returning or
\* raising, the worker is eventually done.
C21_RunTerminates ==
    /\ [](Cardinality(Checks(emitted)) <= FixedChecks + seen.keys)
    /\ [](wpc = "done" =>
            /\ pushed # <<>> /\ pushed[Len(pushed)].kind = "_stop"
            /\ \A i \in 1..(Len(pushed) - 1) : pushed[i].kind # "_stop"
            /\ 0 \in pool.finished /\ 0 \notin pool.running)
    /\ <>(wpc = "done")

\* C21: a run that yielded every fixed check and one check for each of two
\* expected resource keys, finished, and whose worker is done
C21_LongestRunDone ==
    /\ wpc = "done" /\ gen = "returned"
    /\ seen.keys = 2
    /\ Cardinality(Checks(emitted)) = FixedChecks + 2
    /\ Finisheds(emitted) # {}
    /\ 0 \in pool.finished

\* the weight the scheme gives to a check
WeightOf(step_code) ==
    IF step_code \in {"PVE-01", "UBU-01", "SQL-05"} THEN 10
    ELSE IF step_code = "WP-01" THEN 15
    ELSE 5

\* C22: the max_score of every check the generator yields is the weight of
\* its step: 10 for PVE-01, UBU-01 and SQL-05, 15 for WP-01, 5 otherwise,
\* whatever its status.
C22_WeightsFollowScheme ==
    wpc = "got" /\ r.kind = "check" => r.max_score = WeightOf(r.step_code)

\* C22: the Proxmox VM was found: PVE-01 succeeded with score 5 of 5
C22_FoundVmWeighsFive ==
    /\ wpc = "got" /\ r.kind = "check" /\ r.step_code = "PVE-01"
    /\ r.status = "success" /\ r.score = 5 /\ r.max_score = 5

\* find_vm over self.nodes_ssh has returned and its result was yielded
Located == gen \in {"PVE-01", "PVE-01-fatal"}

\* ssh.run was called on the session of node h
Scanned(h) == \E u \in seen.uses : u.session = <<"nodes_ssh", h>>

\* C23: when find_vm has returned, the hosts it scanned are the first ones
\* of the list, in order; if it returned a host, that host is the last one
\* scanned and the only one whose listing has a row naming the VM; if it
\* returned None, every host was scanned and none lists the VM; no command
\* ran on a later host; and the session of every scanned host that does not
\* list the VM, a host with an empty listing included, is closed.
C23_FirstListedHostWins ==
    Located =>
        LET n == Len(seen.scan)
        IN  /\ \A i \in 1..n : seen.scan[i].host = i
            /\ \A i \in 1..(n - 1) : ~seen.scan[i].listed
            /\ gen = "PVE-01" => n >= 1 /\ seen.scan[n].listed /\ loc.vm = n
            /\ gen = "PVE-01-fatal" => n = nodes /\ \A i \in 1..n : ~seen.scan[i].listed
            /\ \A h \in (n + 1)..nodes : ~Scanned(h)
            /\ \A i \in 1..n : Scanned(i)
            /\ \A i \in 1..n : ~seen.scan[i].listed => sess.nodes_ssh[i] = "closed"

\* C23: the first host returned no line, the second lists the VM: find_vm
\* returned the second host and the session of the first is open
C23_SilentHostLeftOpen ==
    /\ gen = "PVE-01" /\ nodes = 2 /\ loc.vm = 2
    /\ Len(seen.scan) = 2 /\ ~seen.scan[1].listed /\ seen.scan[2].listed
    /\ sess.nodes_ssh[1] = "open" /\ sess.nodes_ssh[2] = "open"

\* the worker holds the result of a resource check whose actual value is
\* null: the configuration text did not provide the field
NullResource ==
    /\ wpc = "got" /\ r.kind = "check"
    /\ r.step_code \in {"PVE-RES-CORES", "PVE-RES-DISK_SIZE", "UBU-RES-CORES", "UBU-RES-DISK_SIZE"}
    /\ r.message.s[4] = "None"

\* C24: the check of an expected resource field that the configuration text
\* does not provide fails with score 0, whatever value is expected.
C24_MissingFieldFails == NullResource => r.status = "failed" /\ r.score = 0

\* C24: the payload expects cores to be null and the configuration has no
\* cores line: the check succeeded with score 5
C24_NullExpectedSucceeded ==
    /\ NullResource /\ r.step_code = "PVE-RES-CORES"
    /\ r.message = Str(<<"expected=", "None", " actual=", "None">>)
    /\ r.status = "success" /\ r.score = 5

\* ------------------------------------------- check_nginx_config_syntax
\* One call of check_nginx_config_syntax: the command raises e, or it
\* returns with stdout and stderr.
call_nginx ==
    /\ call.op = "nginx -t"
    /\ call' = [ op |-> "syntax", raises |-> call.raises, e |-> call.e,
                 stdout |-> call.stdout, stderr |-> call.stderr,
                 raw |-> check_nginx_config_syntax(
                            IF call.raises
                            THEN [raises |-> TRUE, e |-> call.e, ok |-> FALSE, markers |-> {}]
                            ELSE NginxAnswer(call.stdout, call.stderr)) ]
    /\ UNCHANGED << nodes, wpc, cancel_event, callbacks, queue, cpc, stop_error, listener,
                    transport, leaderboard, pushed, sent, scope, pool, limitVars >>
    /\ UNCHANGED runnerVars

InitNginx ==
    /\ Start({1}, [probes |-> "any", pending |-> 1, data |-> "complete"])
    /\ pool = OwnPool /\ NoAttempts
    /\ \/ \E stdout \in NginxTexts, stderr \in NginxTexts :
             call = [op |-> "nginx -t", raises |-> FALSE, e |-> NoException,
                     stdout |-> stdout, stderr |-> stderr]
       \/ \E e \in Excs :
             call = [op |-> "nginx -t", raises |-> TRUE, e |-> e,
                     stdout |-> <<>>, stderr |-> <<>>]

NextNginx == call_nginx

SpecNginx == InitNginx /\ [][NextNginx]_vars

\* the text has piece among its pieces
HasPiece(text, piece) == \E i \in 1..Len(text) : text[i] = piece

\* C25: the status of the configuration test is True exactly when the
\* command returned and stdout and stderr, taken together, hold both "syntax
\* is ok" and "test is successful"; with one marker, none, or a command
\* that raised, the status is False.
C25_BothMarkersNeeded ==
    call.op = "syntax" =>
        LET both == /\ ~call.raises
                    /\ HasPiece(call.stdout \o call.stderr, "syntax is ok")
                    /\ HasPiece(call.stdout \o call.stderr, "test is successful")
        IN  /\ call.raw.status = PyBool(both)
            /\ call.raises => call.raw.message = PyStrExc(call.e)

\* C25: stderr held "syntax is ok" and an error, not "test is successful":
\* the status is False
C25_OneMarkerFailed ==
    /\ call.op = "syntax" /\ ~call.raises
    /\ call.stdout = <<>>
    /\ call.stderr = <<"syntax is ok", "[emerg] unexpected \"}\"">>
    /\ call.raw.status = PyFalse
    /\ call.raw.message = Str(<<"Nginx configuration test failed">>)

\* the sessions of the run that are open
OpenSessions ==
    { <<"nodes_ssh", i>> : i \in { j \in DOMAIN sess.nodes_ssh : sess.nodes_ssh[j] = "open" } }
        \cup { <<name>> : name \in { n \in {"pve_ssh", "ubuntu_ssh"} : sess[n] = "open" } }

\* C26: once the worker of a run is done, however the run ended, no session
\* the run opened is open.
C26_NoSessionLeftOpen == wpc = "done" => OpenSessions = {}

\* C26: the run finished with the first of two nodes holding the VM: the
\* session of the second node and the session of the Ubuntu host are open
C26_FinishedWithOpenSessions ==
    /\ wpc = "done" /\ gen = "returned" /\ Finisheds(emitted) # {}
    /\ nodes = 2 /\ loc.vm = 1
    /\ OpenSessions = { <<"nodes_ssh", 2>>, <<"ubuntu_ssh">> }

\* C27: while the transport is down no step sets the cancel event; a worker
\* that is done without the cancel event set ended with the generator and
\* its stop marker is not the cancellation; the worker holds its thread of
\* the pool while it runs; the handler has closed only if the worker is
\* done; and once the transport is down the worker is eventually done.
C27_DisconnectDoesNotCancel ==
    /\ [][transport = "down" => cancel_event' = cancel_event]_vars
    /\ [](wpc = "done" /\ ~cancel_event =>
            /\ gen \in {"returned", "raised"}
            /\ pushed[Len(pushed)] # StopMarker(CancelReason))
    /\ [](wpc \in {"next", "got"} => 0 \in pool.running)
    /\ [](cpc = "closed" => wpc = "done")
    /\ (transport = "down" ~> wpc = "done")

\* C27: the client went away after the start event: the run went on through
\* every check, finished, and the handler closed after the worker was done
C27_RanOnAfterDisconnect ==
    /\ transport = "down" /\ ~cancel_event
    /\ sent = <<StartEvent>>
    /\ Cardinality(Checks(emitted)) >= FixedChecks /\ Finisheds(emitted) # {}
    /\ wpc = "done" /\ gen = "returned" /\ cpc = "closed"
    /\ 0 \in pool.finished

\* the worker found the cancel event set and is done
StoppedByCancel == wpc = "done" /\ pushed[Len(pushed)] = StopMarker(CancelReason)

\* the event the worker held when it found the cancel event set
Discarded == emitted[Len(emitted)]

\* C28: the step in which the worker, holding an event, finds the cancel
\* event set hands over the stop marker with the cancel reason and nothing
\* else, and the worker is done. After it, what was handed over is what the
\* generator yielded before the event held, followed by the stop marker; the
\* event held, be it a check or Finished, is neither handed over nor sent;
\* and if it was a failed fatal check the generator never raised and a
\* handler that closes with the transport intact sends the cancel reason.
C28_InFlightEventDiscarded ==
    /\ [][wpc = "got" /\ cancel_event /\ wpc' # wpc =>
            /\ wpc' = "done"
            /\ pushed' = Append(pushed, StopMarker(CancelReason))
            /\ callbacks' = Append(callbacks, StopMarker(CancelReason))]_vars
    /\ [](StoppedByCancel =>
            /\ Len(pushed) = Len(emitted)
            /\ \A i \in 1..(Len(pushed) - 1) : pushed[i] = emitted[i]
            /\ \A i \in 1..Len(pushed) : pushed[i] # Discarded
            /\ \A i \in 1..Len(sent) : sent[i] # Discarded
            /\ Finisheds(pushed) = {} /\ Finisheds(sent) = {}
            /\ gen # "raised" /\ exc = NoException
            /\ Closed => sent = SubSeq(emitted, 1, Len(emitted) - 1) \o <<ErrorEvent(CancelReason)>>)

\* C28: the login to the Proxmox host failed and the client cancelled while
\* that check ran: the closed run was sent the cancel reason, and neither
\* the failed PVE-03 nor the fatal reason
C28_FatalCheckDiscarded ==
    /\ StoppedByCancel /\ Closed
    /\ gen = "PVE-03-fatal"
    /\ Discarded.kind = "check" /\ Discarded.step_code = "PVE-03"
    /\ seen.loginFailed = "proxmox"
    /\ CodeChecks(sent, "PVE-03") = {}
    /\ sent[Len(sent)] = ErrorEvent(CancelReason)

\* the client cancelled before the generator had yielded anything
CancelledBeforeFirstEvent == seen.cancelLen = 0

\* C29: once the cancel event was set before the generator yielded its
\* first event, the generator yields nothing but the start event and stays
\* suspended there, no session is ever connected, no remote command runs, no
\* check is yielded, and only the stop marker with the cancel reason is
\* handed over: a handler that closes with the transport intact has sent
\* one error event with the cancel reason and nothing before it.
C29_EarlyCancelRunsNothing ==
    CancelledBeforeFirstEvent =>
        /\ emitted \in {<<>>, <<StartEvent>>}
        /\ gen \in {"init", "start"}
        /\ sess = [nodes_ssh |-> <<>>, pve_ssh |-> "none", ubuntu_ssh |-> "none"]
        /\ seen.uses = {} /\ seen.scan = <<>>
        /\ Checks(emitted) = {}
        /\ pushed \in {<<>>, <<StopMarker(CancelReason)>>}
        /\ sent \in {<<>>, <<ErrorEvent(CancelReason)>>}
        /\ wpc = "done" => pushed = <<StopMarker(CancelReason)>> /\ emitted = <<StartEvent>>
        /\ Closed /\ transport = "up" => sent = <<ErrorEvent(CancelReason)>>

\* C29: a run cancelled before its first event was closed after the cancel
\* reason alone was sent
C29_OnlyTheStopDelivered ==
    /\ CancelledBeforeFirstEvent
    /\ wpc = "done" /\ Closed
    /\ emitted = <<StartEvent>>
    /\ sent = <<ErrorEvent(CancelReason)>>

\* C30: every remote command of the pipeline ran on a session that was open
\* when it ran: none ran on a session that was closed or never connected, no
\* stage named a session that was never created, and the generator never
\* raised the failure of a session without a client.
C30_CommandsOnOpenSessions ==
    /\ seen.off = {}
    /\ \A u \in seen.uses : SessionAt(u.session) # "none"
    /\ exc # NoClientError /\ seen.cause # NoClientError

\* C30: a run over two nodes finished: the locator closed the first node,
\* which does not list the VM, the resources and the status were read on the
\* second, and every later stage ran its commands
C30_RanPastClosedHost ==
    /\ Finisheds(emitted) # {}
    /\ nodes = 2 /\ loc.vm = 2 /\ sess.nodes_ssh[1] = "closed"
    /\ StagesOn(<<"nodes_ssh", 1>>) = {"proxmox-exists"}
    /\ StagesOn(<<"nodes_ssh", 2>>) = {"proxmox-exists", "proxmox-resources", "proxmox-status"}
    /\ StagesOn(<<"pve_ssh">>) = {"ubuntu-exists", "ubuntu-resources", "ubuntu-status"}
    /\ StagesOn(<<"ubuntu_ssh">>) = {"php", "web", "mysql", "dns"}
    /\ seen.off = {}

====
